---- MODULE Spec2Model ----
(***************************************************************************)
(* A model of src/lib/dataframe.ts (data-forge): the DataFrame content     *)
(* record, its construction, the transformation operators and the          *)
(* OrderedDataFrame wrapper.                                               *)
(*                                                                         *)
(* A lazily evaluated iterable whose selectors are side-effect free yields *)
(* the same elements on every traversal, so an iterable is modelled by the *)
(* finite sequence of the elements it yields.  The iterables of            *)
(* ./iterables/* are not part of the sources at hand; they are modelled    *)
(* from section 4.1 of the specification.                                  *)
(***************************************************************************)
EXTENDS Integers, Sequences, FiniteSets, TLC

VARIABLES
    df,      \* content record of the receiver dataframe
    arg,     \* content record of the argument dataframe / series of an operator
    ord,     \* the OrderedDataFrame object df was taken from, or NoOrd
    out,     \* what the last operation returned (a record, shape depends on op)
    op,      \* name of the last operation
    steps,   \* number of operators applied so far
    inst,    \* a DataFrame instance built from a config function: its fields
    calls    \* number of invocations of that instance's config function

vars == <<df, arg, ord, out, op, steps, inst, calls>>

-----------------------------------------------------------------------------
(* Bounds of the model.                                                    *)

MaxLen == 2        \* longest row sequence a dataframe is constructed from
MaxOps == 2        \* longest chain of transformation operators
MaxCalls == 3      \* accesses to a lazily configured instance
MaxSortLen == 3    \* longest row sequence that is sorted
MaxWithLen == 2    \* longest dataframe and series given to withSeries
MaxJoinLen == 2    \* longest dataframe given to a join or a set operator
MaxSerLen == 2     \* longest dataframe that is serialized
MaxFrameLen == 2   \* longest dataframe whose row objects are on the heap
MaxIters == 2      \* iterators that are open at the same time
MaxKeysLen == 3    \* longest dataframe that is grouped or made distinct
MaxNamesLen == 3   \* longest list of column names given to the constructor
MaxRangeLen == 3   \* longest dataframe the index range operators are applied to
MaxWindowLen == 3  \* longest dataframe that is cut into windows
MaxColumnsLen == 2 \* longest dataframe whose columns are transformed or renamed
MaxPivotLen == 2   \* longest dataframe that is pivotted

-----------------------------------------------------------------------------
(* JavaScript values.  A scalar is a tagged record; a row object is a      *)
(* record whose fields are its column names.                               *)

Num(n)    == [t |-> "number", n |-> n]
Str(n)    == [t |-> "string", n |-> n]     \* the string holding the numeral n
DateV(n)  == [t |-> "date", n |-> n]       \* the instant n (milliseconds)
Name(n)   == [t |-> "name", n |-> n]       \* a string that is not a numeral
IsoString(n) == [t |-> "isostring", n |-> n]   \* the ISO-8601 string of instant n
InvalidDate == [t |-> "invalid date", n |-> 0] \* a Date that holds no instant
Null      == [t |-> "null", n |-> 0]
Undefined == [t |-> "undefined", n |-> 0]

IsObject(v) == "t" \notin DOMAIN v

\* JavaScript truthiness: 0, null and undefined are falsy, objects are truthy.
Truthy(v) ==
    IF IsObject(v) THEN TRUE
    ELSE CASE v.t = "number" -> v.n # 0
           [] v.t = "null" -> FALSE
           [] v.t = "undefined" -> FALSE
           [] OTHER -> TRUE

\* a || b
Or(a, b) == IF Truthy(a) THEN a ELSE b

\* The property key a value is coerced to when it indexes a plain object.
ToKey(v) ==
    IF IsObject(v) THEN [s |-> "[object Object]", n |-> 0]
    ELSE CASE v.t = "number" -> [s |-> "numeral", n |-> v.n]
           [] v.t = "string" -> [s |-> "numeral", n |-> v.n]
           [] v.t = "date" -> [s |-> "datestring", n |-> v.n]
           [] v.t = "name" -> [s |-> "name", n |-> v.n]
           [] v.t = "null" -> [s |-> "null", n |-> 0]
           [] OTHER -> [s |-> "undefined", n |-> 0]

\* row[columnName]: a missing property reads as undefined.
Get(row, c) == IF c \in DOMAIN row THEN row[c] ELSE Undefined

\* Object.assign({}, row, { [c]: v })
Assign(row, c, v) ==
    IF IsObject(row)
    THEN [k \in (DOMAIN row) \cup {c} |-> IF k = c THEN v ELSE row[k]]
    ELSE [k \in {c} |-> v]                  \* a scalar has no own properties

-----------------------------------------------------------------------------
(* Sequence helpers.                                                       *)

SeqsUpTo(S, n) == UNION {[1..k -> S] : k \in 0..n}

Range(s) == {s[k] : k \in DOMAIN s}

\* The elements of s at the positions in P, in ascending position order.
AtPositions(s, P) ==
    [i \in 1..Cardinality(P) |->
        s[CHOOSE k \in P : Cardinality({j \in P : j <= k}) = i]]

Min(a, b) == IF a <= b THEN a ELSE b
Max(a, b) == IF a >= b THEN a ELSE b

-----------------------------------------------------------------------------
(* Sequence Core: the iterables of ./iterables, modelled from the          *)
(* specification (section 4.1).                                            *)

\* CountIterable yields 0, 1, 2, ... without end; MultiIterable stops at its
\* shortest input, so what is observed of it is the prefix of length n.
CountIterable(n) == [k \in 1..n |-> Num(k - 1)]

EmptyIterable == <<>>

\* A selector, predicate or zipper given to an iterable is the function from
\* the elements it is applied to, to its results.
SelectIterable(s, f) == [k \in DOMAIN s |-> f[s[k]]]

WhereIterable(s, p) == SelectSeq(s, LAMBDA x : p[x])

SkipIterable(s, n) == IF n <= 0 THEN s ELSE SubSeq(s, Min(n, Len(s)) + 1, Len(s))

TakeIterable(s, n) == IF n <= 0 THEN <<>> ELSE SubSeq(s, 1, Min(n, Len(s)))

\* Length of the longest prefix of s whose elements all satisfy p.
PrefixWhile(s, p) ==
    IF \A k \in DOMAIN s : p[s[k]] THEN Len(s)
    ELSE (CHOOSE k \in DOMAIN s : ~p[s[k]] /\ \A j \in 1..(k - 1) : p[s[j]]) - 1

SkipWhileIterable(s, p) == SubSeq(s, PrefixWhile(s, p) + 1, Len(s))

TakeWhileIterable(s, p) == SubSeq(s, 1, PrefixWhile(s, p))

ConcatIterable(a, b) == a \o b

ReverseIterable(s) == [k \in DOMAIN s |-> s[Len(s) + 1 - k]]

\* Pairs the elements of two iterables positionally, up to the shorter one.
MultiIterable(a, b) == [k \in 1..Min(Len(a), Len(b)) |-> <<a[k], b[k]>>]

ZipIterable(a, b, zipper) == [k \in 1..Min(Len(a), Len(b)) |-> zipper[<<a[k], b[k]>>]]

ExtractElementIterable(ps, i) == [k \in DOMAIN ps |-> ps[k][i + 1]]

\* First occurrence per key wins, first-seen order; keys are compared in the
\* coerced key space (specification 4.1 and 9, open question 2).
DistinctIterable(s, key) ==
    AtPositions(s, {k \in DOMAIN s :
        \A j \in 1..(k - 1) : ToKey(key[s[j]]) # ToKey(key[s[k]])})

\* ColumnNamesIterable: the keys of the first row (considerAllRows = false).
ColumnNamesIterable(values) ==
    IF Len(values) = 0 \/ ~IsObject(values[1]) THEN <<>>
    ELSE LET ks == DOMAIN values[1]
             names == <<"A", "a", "B", "C", "K", "V", "X", "o", "i">>
         IN  AtPositions(names, {k \in DOMAIN names : names[k] \in ks})

-----------------------------------------------------------------------------
(* Helpers of ./utils, modelled from the specification.                    *)

\* makeDistinct: the first occurrence of every element, in order.
makeDistinct(s) ==
    AtPositions(s, {k \in DOMAIN s : \A j \in 1..(k - 1) : s[j] # s[k]})

\* toMap(pairs, p => p[0], p => p[1])[key]: a plain object keyed by the coerced
\* key; a later entry overwrites an earlier one; a missing key reads undefined.
MapGet(ps, key) ==
    LET hits == {k \in DOMAIN ps : ToKey(ps[k][1]) = ToKey(key)}
    IN  IF hits = {} THEN Undefined
        ELSE ps[CHOOSE k \in hits : \A j \in hits : j <= k][2]

-----------------------------------------------------------------------------
(* Construction of the content record.                                     *)

ToLower(name) ==
    CASE name = "A" -> "a"
      [] name = "B" -> "b"
      [] name = "C" -> "c"
      [] name = "X" -> "x"
      [] name = "A.1" -> "a.1"
      [] OTHER -> name

\* DataFrame.initColumnNames: names that collide ignoring case are suffixed.
initColumnNames(inputColumnNames) ==
    LET lwr(k) == ToLower(inputColumnNames[k])
        columnNamesMap(l) ==
            Cardinality({k \in DOMAIN inputColumnNames : lwr(k) = l})
        \* columnNoMap at position k: 1 + the number of earlier collisions
        curColumnNo(k) ==
            1 + Cardinality({j \in 1..(k - 1) : lwr(j) = lwr(k)})
    IN  [k \in DOMAIN inputColumnNames |->
            IF columnNamesMap(lwr(k)) > 1
            THEN inputColumnNames[k] \o "." \o ToString(curColumnNo(k))
            ELSE inputColumnNames[k]]

\* DataFrame.initFromArray
initFromArray(arr) ==
    [index |-> CountIterable(Len(arr)),
     values |-> arr,
     pairs |-> MultiIterable(CountIterable(Len(arr)), arr),
     isBaked |-> TRUE,
     columnNames |-> IF Len(arr) > 0 /\ IsObject(arr[1])
                     THEN ColumnNamesIterable(arr) ELSE <<>>]

\* DataFrame.initEmpty
initEmpty ==
    [index |-> EmptyIterable, values |-> EmptyIterable, pairs |-> EmptyIterable,
     isBaked |-> TRUE, columnNames |-> <<>>]

\* DataFrame.initFromConfig for a config object holding any of the fields
\* pairs, values, index, columnNames, baked (an absent field is not in the
\* record's domain).
initFromConfig(config) ==
    LET has(f) == f \in DOMAIN config
        values == IF has("values") THEN config.values
                  ELSE IF has("pairs") THEN ExtractElementIterable(config.pairs, 1)
                  ELSE EmptyIterable
        columnNames == IF has("columnNames") THEN initColumnNames(config.columnNames)
                       ELSE IF has("values") \/ has("pairs") THEN ColumnNamesIterable(values)
                       ELSE EmptyIterable
        index == IF has("index") THEN config.index
                 ELSE IF has("pairs") THEN ExtractElementIterable(config.pairs, 0)
                 ELSE CountIterable(Len(values))
        pairs == IF has("pairs") THEN config.pairs ELSE MultiIterable(index, values)
        isBaked == IF has("baked") THEN config.baked ELSE FALSE
    IN  [index |-> index, values |-> values, pairs |-> pairs,
         isBaked |-> isBaked, columnNames |-> columnNames]

\* A Series content record (./series): index, values and their pairs.
SeriesOf(index, values) ==
    [index |-> index, values |-> values, pairs |-> MultiIterable(index, values)]

-----------------------------------------------------------------------------
(* Materialising reads.                                                    *)

\* DataFrame.toArray: entries that are undefined are left out.
toArray(c) == SelectSeq(c.values, LAMBDA v : v # Undefined)

\* DataFrame.toPairs: the test is pair[1] != undefined, which null fails too.
toPairs(c) == SelectSeq(c.pairs, LAMBDA p : p[2] # Undefined /\ p[2] # Null)

\* DataFrame.count
count(c) == Len(c.values)

\* DataFrame.getColumnNames
getColumnNames(c) == c.columnNames

\* DataFrame.none() without a predicate
none(c) == Len(c.values) = 0

\* DataFrame.any() without a predicate
any(c) == Len(c.values) > 0

-----------------------------------------------------------------------------
(* User-supplied functions are data: a selector names the column it reads, *)
(* a predicate the column and the value it tests for, a row transformer    *)
(* the column it overwrites.                                               *)

NoSelector == "(none)"                       \* an omitted optional selector

Selector(sel, row) == Get(row, sel)          \* row => row[sel]

Predicate(p, row) == Get(row, p.col) = p.val \* row => row[col] === val

Transform(f, row) == Assign(row, f.col, f.val) \* row => ({...row, [col]: val})

\* Index.getLessThan / getLessThanOrEqualTo (./index) for number and date keys.
lessThan(a, b) == a.n < b.n
lessThanOrEqualTo(a, b) == a.n <= b.n

-----------------------------------------------------------------------------
(* Transformation operators.  Each returns the content record the derived  *)
(* dataframe initialises from the config its function returns.             *)

\* DataFrame.select
select(c, selector) ==
    initFromConfig([
        values |-> SelectIterable(c.values, selector),
        index |-> c.index])

\* DataFrame.where
where(c, predicate) ==
    initFromConfig([
        columnNames |-> c.columnNames,
        values |-> WhereIterable(c.values, predicate),
        pairs |-> WhereIterable(c.pairs,
            [pair \in Range(c.pairs) |-> predicate[pair[2]]])])

\* DataFrame.skip
skip(c, numValues) ==
    initFromConfig([
        columnNames |-> c.columnNames,
        values |-> SkipIterable(c.values, numValues),
        index |-> SkipIterable(c.index, numValues),
        pairs |-> SkipIterable(c.pairs, numValues)])

\* DataFrame.skipWhile
skipWhile(c, p) ==
    initFromConfig([
        columnNames |-> c.columnNames,
        values |-> SkipWhileIterable(c.values,
            [v \in Range(c.values) |-> Predicate(p, v)]),
        pairs |-> SkipWhileIterable(c.pairs,
            [pair \in Range(c.pairs) |-> Predicate(p, pair[2])])])

\* DataFrame.take
take(c, numRows) ==
    initFromConfig([
        columnNames |-> c.columnNames,
        index |-> TakeIterable(c.index, numRows),
        values |-> TakeIterable(c.values, numRows),
        pairs |-> TakeIterable(c.pairs, numRows)])

\* DataFrame.takeWhile
takeWhile(c, p) ==
    initFromConfig([
        columnNames |-> c.columnNames,
        values |-> TakeWhileIterable(c.values,
            [v \in Range(c.values) |-> Predicate(p, v)]),
        pairs |-> TakeWhileIterable(c.pairs,
            [pair \in Range(c.pairs) |-> Predicate(p, pair[2])])])

\* DataFrame.withIndex for an iterable newIndex
withIndex(c, newIndex) ==
    initFromConfig([
        columnNames |-> c.columnNames,
        values |-> c.values,
        index |-> newIndex])

\* DataFrame.resetIndex
resetIndex(c) ==
    initFromConfig([columnNames |-> c.columnNames, values |-> c.values])

\* DataFrame.reverse
reverse(c) ==
    initFromConfig([
        columnNames |-> c.columnNames,
        values |-> ReverseIterable(c.values),
        index |-> ReverseIterable(c.index),
        pairs |-> ReverseIterable(c.pairs)])

\* The key the pairs view of distinct compares:
\* selector && selector(pair[1]) || pair[1]
distinctPairKey(selector, pair) ==
    IF selector = NoSelector THEN pair[2]
    ELSE Or(Selector(selector, pair[2]), pair[2])

\* DataFrame.distinct
distinct(c, selector) ==
    initFromConfig([
        columnNames |-> c.columnNames,
        values |-> DistinctIterable(c.values,
            [v \in Range(c.values) |->
                IF selector = NoSelector THEN v ELSE Selector(selector, v)]),
        pairs |-> DistinctIterable(c.pairs,
            [pair \in Range(c.pairs) |-> distinctPairKey(selector, pair)])])

\* DataFrame.concat of the receiver and one other dataframe
concat(c, d) ==
    initFromConfig([
        columnNames |-> makeDistinct(c.columnNames \o d.columnNames),
        values |-> ConcatIterable(c.values, d.values),
        pairs |-> ConcatIterable(c.pairs, d.pairs)])

\* DataFrame.zip of the receiver and one other dataframe; the zipper merges
\* the two rows, the second row's fields winning.
zip(c, d) ==
    IF none(c) THEN initEmpty
    ELSE initFromConfig([
        index |-> c.index,
        values |-> ZipIterable(c.values, d.values,
            [ab \in Range(c.values) \X Range(d.values) |->
                [k \in (DOMAIN ab[1]) \cup (DOMAIN ab[2]) |->
                    IF k \in DOMAIN ab[2] THEN ab[2][k] ELSE ab[1][k]]])])

\* bake without the isBaked test: every call materialises a new instance.
bakeAlways(c) ==
    [same |-> FALSE,
     content |-> initFromConfig([
         columnNames |-> getColumnNames(c),
         values |-> toArray(c),
         pairs |-> toPairs(c),
         baked |-> TRUE])]

\* DataFrame.bake.  same: the receiver itself is returned (`return this`),
\* nothing is materialised; otherwise a new instance is built from the
\* receiver's toArray() and toPairs().
bake(c) ==
    IF c.isBaked THEN [same |-> TRUE, content |-> c]
    ELSE [same |-> FALSE,
          content |-> initFromConfig([
              columnNames |-> getColumnNames(c),
              values |-> toArray(c),
              pairs |-> toPairs(c),
              baked |-> TRUE])]

\* DataFrame.startAt
startAt(c, indexValue) ==
    initFromConfig([
        columnNames |-> c.columnNames,
        index |-> SkipWhileIterable(c.index,
            [i \in Range(c.index) |-> lessThan(i, indexValue)]),
        pairs |-> SkipWhileIterable(c.pairs,
            [pair \in Range(c.pairs) |-> lessThan(pair[1], indexValue)])])

\* DataFrame.endAt
endAt(c, indexValue) ==
    initFromConfig([
        columnNames |-> c.columnNames,
        index |-> TakeWhileIterable(c.index,
            [i \in Range(c.index) |-> lessThanOrEqualTo(i, indexValue)]),
        pairs |-> TakeWhileIterable(c.pairs,
            [pair \in Range(c.pairs) |-> lessThanOrEqualTo(pair[1], indexValue)])])

\* DataFrame.before
before(c, indexValue) ==
    initFromConfig([
        columnNames |-> c.columnNames,
        index |-> TakeWhileIterable(c.index,
            [i \in Range(c.index) |-> lessThan(i, indexValue)]),
        pairs |-> TakeWhileIterable(c.pairs,
            [pair \in Range(c.pairs) |-> lessThan(pair[1], indexValue)])])

\* DataFrame.after
after(c, indexValue) ==
    initFromConfig([
        columnNames |-> c.columnNames,
        index |-> SkipWhileIterable(c.index,
            [i \in Range(c.index) |-> lessThanOrEqualTo(i, indexValue)]),
        pairs |-> SkipWhileIterable(c.pairs,
            [pair \in Range(c.pairs) |-> lessThanOrEqualTo(pair[1], indexValue)])])

\* DataFrame.between
between(c, startIndexValue, endIndexValue) ==
    endAt(startAt(c, startIndexValue), endIndexValue)

-----------------------------------------------------------------------------
(* withSeries.                                                             *)

\* Series.toPairs (./series): entries whose value is undefined are left out.
seriesToPairs(series) == SelectSeq(series.pairs, LAMBDA p : p[2] # Undefined)

\* Series.inflate(value => ({ [columnName]: value })) (./series): a dataframe
\* with the series' index whose rows hold the one column.
inflate(series, columnName) ==
    initFromConfig([
        values |-> SelectIterable(series.values,
            [v \in Range(series.values) |-> [k \in {columnName} |-> v]]),
        index |-> series.index,
        pairs |-> SelectIterable(series.pairs,
            [pair \in Range(series.pairs) |->
                <<pair[1], [k \in {columnName} |-> pair[2]]>>])])

\* withSeries that takes the k-th value of the series for the k-th row.
withSeriesByPosition(c, columnName, series) ==
    IF none(c) THEN inflate(series, columnName)
    ELSE initFromConfig([
        columnNames |-> makeDistinct(getColumnNames(c) \o <<columnName>>),
        index |-> c.index,
        pairs |-> [k \in DOMAIN c.pairs |-> <<c.pairs[k][1],
            Assign(c.pairs[k][2], columnName,
                   IF k \in DOMAIN series.values
                   THEN series.values[k] ELSE Undefined)>>]])

\* DataFrame.withSeries(columnName, series) for a Series object
withSeries(c, columnName, series) ==
    IF none(c) THEN inflate(series, columnName)
    ELSE initFromConfig([
        columnNames |-> makeDistinct(getColumnNames(c) \o <<columnName>>),
        index |-> c.index,
        pairs |-> SelectIterable(c.pairs,
            [pair \in Range(c.pairs) |->
                <<pair[1],
                  Assign(pair[2], columnName,
                         MapGet(seriesToPairs(series), pair[1]))>>])])

-----------------------------------------------------------------------------
(* OrderedDataFrame.                                                       *)

NoOrd == [none |-> TRUE]                     \* the null parent

Ascending == "ascending"
Descending == "descending"

\* The sort key order of two scalar keys (numbers, by value).
KeyLess(a, b) == a.n < b.n

\* OrderedIterable (./iterables/ordered-iterable): a stable sort of s that
\* compares the keys sortSpecs[l].selector[element] level by level in the
\* order of sortSpecs and keeps the input order of elements that tie on all
\* levels.
OrderedIterable(s, sortSpecs) ==
    LET k(l, i) == sortSpecs[l].selector[s[i]]
        first(l, i, j) ==
            IF sortSpecs[l].direction = Ascending
            THEN KeyLess(k(l, i), k(l, j)) ELSE KeyLess(k(l, j), k(l, i))
        tie(l, i, j) == ~first(l, i, j) /\ ~first(l, j, i)
        precedes(i, j) ==
            \/ \E l \in DOMAIN sortSpecs :
                  /\ \A m \in 1..(l - 1) : tie(m, i, j)
                  /\ first(l, i, j)
            \/ /\ \A l \in DOMAIN sortSpecs : tie(l, i, j)
               /\ i < j
    IN  [r \in DOMAIN s |->
            s[CHOOSE i \in DOMAIN s :
                Cardinality({j \in DOMAIN s : precedes(j, i)}) = r - 1]]

\* OrderedDataFrame.makeSortSpec
makeSortSpec(sortLevel, selector, direction) ==
    [sortLevel |-> sortLevel, selector |-> selector, direction |-> direction]

\* A pairs selector whose key is the index value of the pair.
makePairsSelectorOfPair(selector, pair) == pair[1]

\* OrderedDataFrame.makePairsSelector(selector), applied to a pair: the key of
\* a pair is the key of its row.
makePairsSelector(selector, pair) == Selector(selector, pair[2])

\* The objects the constructor's while loop visits: parent, parent.parent, ...
RECURSIVE ParentChain(_)
ParentChain(parent) ==
    IF parent = NoOrd THEN <<>>
    ELSE <<parent>> \o ParentChain(parent.parent)

\* OrderedDataFrame.constructor.  The loop advances the parameter `parent`
\* until it is null, and only then is it stored in this.parent.
OrderedDataFrame(values, pairs, selector, direction, parent) ==
    LET visited == ParentChain(parent)
        valueSelector(sel) == [v \in Range(values) |-> Selector(sel, v)]
        pairSelector(sel) == [pair \in Range(pairs) |-> makePairsSelector(sel, pair)]
        valueSortSpecs ==
            [l \in 1..Len(visited) |->
                makeSortSpec(l - 1, valueSelector(visited[l].selector),
                             visited[l].direction)]
            \o <<makeSortSpec(Len(visited), valueSelector(selector), direction)>>
        pairSortSpecs ==
            [l \in 1..Len(visited) |->
                makeSortSpec(l - 1, pairSelector(visited[l].selector),
                             visited[l].direction)]
            \o <<makeSortSpec(Len(visited), pairSelector(selector), direction)>>
    IN  [parent |-> NoOrd,
         selector |-> selector,
         direction |-> direction,
         origValues |-> values,
         origPairs |-> pairs,
         content |-> initFromConfig([
            values |-> OrderedIterable(values, valueSortSpecs),
            pairs |-> OrderedIterable(pairs, pairSortSpecs)])]

\* DataFrame.orderBy / orderByDescending
orderBy(c, selector, direction) ==
    OrderedDataFrame(c.values, c.pairs, selector, direction, NoOrd)

\* OrderedDataFrame.thenBy / thenByDescending
thenBy(o, selector, direction) ==
    OrderedDataFrame(o.origValues, o.origPairs, selector, direction, o)

-----------------------------------------------------------------------------
(* Grouping, set algebra and joins.                                        *)

\* The string "constructor": a property that every plain object inherits.
Constructor == Name(0)

\* A call that ended in a TypeError instead of a result.
TypeError == [threw |-> "TypeError"]

\* groupMap is a plain object ({}): for a key that names an inherited
\* property, groupMap[groupKey] is that property, a truthy value without
\* push(), and existingGroup.push(pair) is a TypeError.
existingGroupFails(c, selector) ==
    \E k \in DOMAIN c.pairs :
        ToKey(Selector(selector, c.pairs[k][2])) = ToKey(Constructor)

\* DataFrame.groupBy: the groups as dataframes, in the order in which their
\* key first appears; rows are grouped by the coerced key.
groupBy(c, selector) ==
    LET key(k) == ToKey(Selector(selector, c.pairs[k][2]))
        firsts == {k \in DOMAIN c.pairs : \A j \in 1..(k - 1) : key(j) # key(k)}
        start == AtPositions([k \in DOMAIN c.pairs |-> k], firsts)
    IN  IF existingGroupFails(c, selector) THEN TypeError
        ELSE [g \in DOMAIN start |->
                initFromConfig([pairs |->
                    AtPositions(c.pairs,
                        {k \in DOMAIN c.pairs : key(k) = key(start[g])})])]

\* DataFrame.first
first(c) == c.values[1]

\* except with the test for a match inverted (any() for none()).
exceptWithAny(outer, inner, outerSelector, innerSelector) ==
    where(outer,
            [outerValue \in Range(outer.values) |->
                any(where(inner,
                    [innerValue \in Range(inner.values) |->
                        Selector(outerSelector, outerValue)
                            = Selector(innerSelector, innerValue)]))])

\* DataFrame.intersection: the outer rows whose key is === the key of some
\* inner row.
intersection(outer, inner, outerSelector, innerSelector) ==
    where(outer,
            [outerValue \in Range(outer.values) |->
                any(where(inner,
                    [innerValue \in Range(inner.values) |->
                        Selector(outerSelector, outerValue)
                            = Selector(innerSelector, innerValue)]))])

\* DataFrame.except: the outer rows whose key is === the key of no inner row.
except(outer, inner, outerSelector, innerSelector) ==
    where(outer,
            [outerValue \in Range(outer.values) |->
                none(where(inner,
                    [innerValue \in Range(inner.values) |->
                        Selector(outerSelector, outerValue)
                            = Selector(innerSelector, innerValue)]))])

\* The JoinFn passed to the joins: (outer, inner) => ({ o: outer, i: inner }).
resultSelector(outerValue, innerValue) == [o |-> outerValue, i |-> innerValue]

\* DataFrame.join: innerMap maps the (coerced) key of each inner group to the
\* group; every outer row is paired with the rows of innerMap[outerKey].  The
\* join fails as inner.groupBy fails.
join(outer, inner, outerKeySelector, innerKeySelector) ==
    LET groups == groupBy(inner, innerKeySelector)
        hits(outerValue) ==
            {g \in DOMAIN groups :
                ToKey(Selector(innerKeySelector, first(groups[g])))
                    = ToKey(Selector(outerKeySelector, outerValue))}
        rowsFor(outerValue) ==
            IF hits(outerValue) = {} THEN <<>>
            ELSE LET innerGroup ==
                        groups[CHOOSE g \in hits(outerValue) :
                                   \A h \in hits(outerValue) : h <= g]
                 IN  [j \in DOMAIN innerGroup.values |->
                         resultSelector(outerValue, innerGroup.values[j])]
        output[k \in 0..Len(outer.values)] ==
            IF k = 0 THEN <<>> ELSE output[k - 1] \o rowsFor(outer.values[k])
    IN  IF existingGroupFails(inner, innerKeySelector) THEN TypeError
        ELSE initFromConfig([values |-> output[Len(outer.values)]])

\* The rows of outer that are not in inner, paired with null.
outerOnly(outer, inner, outerKeySelector, innerKeySelector) ==
    LET outerRows == except(outer, inner, outerKeySelector, innerKeySelector)
    IN  resetIndex(
            select(outerRows,
                   [o \in Range(outerRows.values) |-> resultSelector(o, Null)]))

\* The rows of inner that are not in outer, paired with null.
innerOnly(outer, inner, outerKeySelector, innerKeySelector) ==
    LET innerRows == except(inner, outer, innerKeySelector, outerKeySelector)
    IN  resetIndex(
            select(innerRows,
                   [i \in Range(innerRows.values) |-> resultSelector(Null, i)]))

\* DataFrame.joinOuter
joinOuter(outer, inner, outerKeySelector, innerKeySelector) ==
    LET intersectionResults == join(outer, inner, outerKeySelector, innerKeySelector)
    IN  IF intersectionResults = TypeError THEN TypeError
        ELSE resetIndex(
                concat(concat(outerOnly(outer, inner, outerKeySelector, innerKeySelector),
                              intersectionResults),
                       innerOnly(outer, inner, outerKeySelector, innerKeySelector)))

\* DataFrame.joinOuterLeft
joinOuterLeft(outer, inner, outerKeySelector, innerKeySelector) ==
    LET intersectionResults == join(outer, inner, outerKeySelector, innerKeySelector)
    IN  IF intersectionResults = TypeError THEN TypeError
        ELSE resetIndex(
                concat(outerOnly(outer, inner, outerKeySelector, innerKeySelector),
                       intersectionResults))

\* DataFrame.joinOuterRight
joinOuterRight(outer, inner, outerKeySelector, innerKeySelector) ==
    LET intersectionResults == join(outer, inner, outerKeySelector, innerKeySelector)
    IN  IF intersectionResults = TypeError THEN TypeError
        ELSE resetIndex(
                concat(intersectionResults,
                       innerOnly(outer, inner, outerKeySelector, innerKeySelector)))

-----------------------------------------------------------------------------
(* Structural serialization.                                               *)

\* A call that ended in a thrown Error instead of a result.
Error == [threw |-> "Error"]

\* determineType (./utils): the type tag of a value.
determineType(v) ==
    IF IsObject(v) THEN "unsupported"
    ELSE CASE v.t = "number" -> "number"
           [] v.t \in {"string", "name", "isostring"} -> "string"
           [] v.t \in {"date", "invalid date"} -> "date"
           [] v.t = "undefined" -> "undefined"
           [] OTHER -> "unsupported"

\* moment(v).toISOString(true) of a Date.
toISOString(v) == IF v.t = "date" THEN IsoString(v.n) ELSE Null

\* moment(v, moment.ISO_8601).toDate(): the instant of an ISO-8601 string or
\* of a Date; any other input, undefined included, is no valid date.
toDate(v) ==
    IF IsObject(v) THEN InvalidDate
    ELSE IF v.t \in {"isostring", "date"} THEN DateV(v.n)
    ELSE InvalidDate

\* DataFrame.getSeries
getSeries(c, columnName) ==
    SeriesOf(c.index,
             SelectIterable(c.values,
                 [row \in Range(c.values) |-> Get(row, columnName)]))

\* Series.first() (./series) throws when the series has no values; getColumns
\* calls it for every column.
firstFails(c) == Len(getColumnNames(c)) > 0 /\ Len(c.values) = 0

\* DataFrame.getColumns: name, type and series of every column.
getColumns(c) ==
    LET columnNames == getColumnNames(c)
    IN  [k \in DOMAIN columnNames |->
            LET series == getSeries(c, columnNames[k])
            IN  [name |-> columnNames[k],
                 type |-> determineType(first(series)),
                 series |-> series]]

\* Index.getType() (./index): the type of the first index value.
getType(index) == determineType(index[1])

\* DataFrame.serialize.  Every row serialized here has every column.
serialize(c) ==
    LET values == toArray(c)
        indices == TakeIterable(c.index, Len(values))
        columns == getColumns(c)
        columnType(name) ==
            columns[CHOOSE k \in DOMAIN columns : columns[k].name = name].type
        names == {columns[k].name : k \in DOMAIN columns}
        serializedColumns ==
            [name \in names \cup (IF Len(values) > 0 THEN {"__index__"} ELSE {}) |->
                IF name \in names THEN columnType(name) ELSE getType(c.index)]
        serializedValues ==
            [k \in DOMAIN values |->
                LET serializedValue == Assign(values[k], "__index__", indices[k])
                IN  [f \in DOMAIN serializedValue |->
                        IF f \in names /\ columnType(f) = "date"
                        THEN toISOString(serializedValue[f])
                        ELSE serializedValue[f]]]
    IN  IF firstFails(c) THEN Error
        ELSE [columnOrder |-> getColumnNames(c),
              columns |-> serializedColumns,
              values |-> serializedValues]

\* DataFrame.deserialize: every key of input.columns tagged "date", __index__
\* included, is converted in the clones from which __index__ was deleted.
deserialize(input) ==
    LET dates == {f \in DOMAIN input.columns : input.columns[f] = "date"}
        deserializedValues ==
            [k \in DOMAIN input.values |->
                LET row == input.values[k]
                    clone == [f \in (DOMAIN row) \ {"__index__"} |-> row[f]]
                IN  [f \in (DOMAIN clone) \cup dates |->
                        IF f \in dates THEN toDate(Get(clone, f)) ELSE clone[f]]]
    IN  initFromConfig([
            columnNames |-> input.columnOrder,
            index |-> [k \in DOMAIN input.values |-> input.values[k]["__index__"]],
            values |-> deserializedValues])

-----------------------------------------------------------------------------
(* Specification SpecOps: a dataframe is constructed and transformation    *)
(* operators are applied to it, each to the result of the one before.      *)

NoArg == [none |-> TRUE]
NoOut == [none |-> TRUE]
NoInst == [none |-> TRUE]

\* Rows of the constructed dataframes: objects with a column A, and null.
OpsRows == {[A |-> Num(0)], [A |-> Num(1)], [A |-> Null], Null}
OpsObjects == {r \in OpsRows : IsObject(r)}

OpsSelectors == {"A"}
OpsPredicates == {[col |-> "A", val |-> Num(0)], [col |-> "A", val |-> Num(1)]}
OpsTransforms == {[col |-> "A", val |-> Num(1)], [col |-> "B", val |-> Num(0)]}
OpsIndexValues == {Num(0), Num(1)}

\* Dataframes passed as the other operand of concat and zip.
OpsOthers == {initFromArray(r) : r \in SeqsUpTo({[A |-> Num(0)], [B |-> Num(1)]}, 1)}

\* Series passed to withSeries.
OpsSeries == {SeriesOf(<<Num(0)>>, <<Num(7)>>),
              SeriesOf(<<Num(1), Num(0)>>, <<Num(7), Num(8)>>)}

\* An explicit index of n ascending numbers.
ExplicitIndex(n) == [k \in 1..n |-> Num(k + 4)]

AllObjects(c) ==
    /\ \A k \in DOMAIN c.values : IsObject(c.values[k])
    /\ \A k \in DOMAIN c.pairs : IsObject(c.pairs[k][2])

\* The precondition of the range operators: a numeric index sorted ascending.
SortedIndex(c) ==
    /\ \A k \in DOMAIN c.index : c.index[k].t = "number"
    /\ \A j, k \in DOMAIN c.index : j < k => c.index[j].n <= c.index[k].n
    /\ \A k \in DOMAIN c.pairs : c.pairs[k][1].t = "number"

\* new DataFrame(rows), new DataFrame({values}), new DataFrame({values, index})
\* and new DataFrame({pairs}); Object.keys of the first element of an array
\* needs that element to be an object.
InitOps ==
    /\ \E rows \in SeqsUpTo(OpsRows, MaxLen) :
       \E form \in {"array", "values", "index", "pairs"} :
          /\ form = "array" => (\A k \in DOMAIN rows : k = 1 => IsObject(rows[k]))
          /\ df = CASE form = "array" -> initFromArray(rows)
                    [] form = "values" ->
                         initFromConfig([columnNames |-> <<"A">>, values |-> rows])
                    [] form = "index" ->
                         initFromConfig([columnNames |-> <<"A">>, values |-> rows,
                                         index |-> ExplicitIndex(Len(rows))])
                    [] OTHER ->
                         initFromConfig([columnNames |-> <<"A">>,
                             pairs |-> MultiIterable(ExplicitIndex(Len(rows)), rows)])
    /\ arg = NoArg
    /\ ord = NoOrd
    /\ out = NoOut
    /\ op = "new"
    /\ steps = 0
    /\ inst = NoInst
    /\ calls = 0

\* One operator call on the current dataframe.
Apply(name, result, ordered, returned) ==
    /\ steps < MaxOps
    /\ df' = result
    /\ ord' = ordered
    /\ out' = returned
    /\ op' = name
    /\ steps' = steps + 1
    /\ UNCHANGED <<arg, inst, calls>>

Select ==
    \E f \in OpsTransforms :
        /\ AllObjects(df)
        /\ Apply("select", select(df, [v \in Range(df.values) |-> Transform(f, v)]), NoOrd, NoOut)

Where ==
    \E p \in OpsPredicates :
        /\ AllObjects(df)
        /\ Apply("where",
                 where(df, [v \in Range(df.values)
                                  \cup Range(ExtractElementIterable(df.pairs, 1)) |->
                              Predicate(p, v)]),
                 NoOrd, NoOut)

Skip == \E n \in 0..MaxLen : Apply("skip", skip(df, n), NoOrd, NoOut)

Take == \E n \in 0..MaxLen : Apply("take", take(df, n), NoOrd, NoOut)

SkipWhile ==
    \E p \in OpsPredicates :
        AllObjects(df) /\ Apply("skipWhile", skipWhile(df, p), NoOrd, NoOut)

TakeWhile ==
    \E p \in OpsPredicates :
        AllObjects(df) /\ Apply("takeWhile", takeWhile(df, p), NoOrd, NoOut)

Distinct ==
    \E sel \in OpsSelectors \cup {NoSelector} :
        /\ sel # NoSelector => AllObjects(df)
        /\ Apply("distinct", distinct(df, sel), NoOrd, NoOut)

Concat == \E d \in OpsOthers : Apply("concat", concat(df, d), NoOrd, NoOut)

Zip ==
    \E d \in OpsOthers :
        AllObjects(df) /\ Apply("zip", zip(df, d), NoOrd, NoOut)

WithSeries ==
    \E s \in OpsSeries : Apply("withSeries", withSeries(df, "X", s), NoOrd, NoOut)

\* withIndex with one index value per row
WithIndex ==
    Apply("withIndex", withIndex(df, ExplicitIndex(count(df))), NoOrd, NoOut)

ResetIndex == Apply("resetIndex", resetIndex(df), NoOrd, NoOut)

Reverse == Apply("reverse", reverse(df), NoOrd, NoOut)

Bake ==
    Apply("bake", bake(df).content, NoOrd,
          [same |-> bake(df).same, receiver |-> df, receiverOp |-> op,
           receiverOut |-> out])

StartAt ==
    \E v \in OpsIndexValues :
        SortedIndex(df) /\ Apply("startAt", startAt(df, v), NoOrd, NoOut)

EndAt ==
    \E v \in OpsIndexValues :
        SortedIndex(df) /\ Apply("endAt", endAt(df, v), NoOrd, NoOut)

Before ==
    \E v \in OpsIndexValues :
        SortedIndex(df) /\ Apply("before", before(df, v), NoOrd, NoOut)

After ==
    \E v \in OpsIndexValues :
        SortedIndex(df) /\ Apply("after", after(df, v), NoOrd, NoOut)

Between ==
    \E v, w \in OpsIndexValues :
        SortedIndex(df) /\ Apply("between", between(df, v, w), NoOrd, NoOut)

OrderBy ==
    \E sel \in OpsSelectors, dir \in {Ascending, Descending} :
        /\ AllObjects(df)
        /\ Apply("orderBy", orderBy(df, sel, dir).content,
                 orderBy(df, sel, dir), NoOut)

ThenBy ==
    \E sel \in OpsSelectors, dir \in {Ascending, Descending} :
        /\ ord # NoOrd
        /\ Apply("thenBy", thenBy(ord, sel, dir).content,
                 thenBy(ord, sel, dir), NoOut)

NextOps ==
    \/ Select \/ Where \/ Skip \/ Take \/ SkipWhile \/ TakeWhile
    \/ Distinct \/ Concat \/ Zip \/ WithSeries \/ WithIndex \/ ResetIndex
    \/ Reverse \/ Bake \/ StartAt \/ EndAt \/ Before \/ After \/ Between
    \/ OrderBy \/ ThenBy

SpecOps == InitOps /\ [][NextOps]_vars

\* C1: index and values of the current dataframe have the same length and
\* pairs is their positional zip: pairs[k] = (index[k], values[k]).
Congruent(c) ==
    /\ Len(c.index) = Len(c.values)
    /\ Len(c.pairs) = Len(c.values)
    /\ \A k \in DOMAIN c.pairs : c.pairs[k] = <<c.index[k], c.values[k]>>

C1_IndexValuesPairsCongruent == Congruent(df)

\* C9: bake is idempotent.  The result of a bake is baked, baking it again
\* returns the same instance with the same content, and baking a receiver
\* whose content is already baked materialises nothing.
C9_BakeIdempotent ==
    [][op' = "bake" =>
        /\ df'.isBaked
        /\ bake(df').same
        /\ bake(df').content = df'
        /\ (df.isBaked => out'.same /\ df' = df)]_vars

\* A dataframe with rows was baked, and the baked result was baked again.
C9_Witness ==
    /\ op = "bake"
    /\ out.receiverOp = "bake"
    /\ out.same
    /\ ~out.receiverOut.same
    /\ Len(df.values) > 0

\* C28: bake() preserves the observable content: the baked dataframe has the
\* count(), toArray(), toPairs(), index values and getColumnNames() of the
\* dataframe it was called on, whatever its values are.
C28_BakePreservesContent ==
    [][op' = "bake" =>
        /\ count(df') = count(df)
        /\ toArray(df') = toArray(df)
        /\ toPairs(df') = toPairs(df)
        /\ df'.index = df.index
        /\ getColumnNames(df') = getColumnNames(df)]_vars

-----------------------------------------------------------------------------
(* Specification SpecSort: a dataframe is sorted by an orderBy call        *)
(* followed by thenBy calls.  df is the dataframe sorted, ord the ordered  *)
(* dataframe the last call returned, out the (selector, direction) of the  *)
(* calls made so far, first call first.                                    *)

SortRows == {[A |-> Num(0), B |-> Num(1), C |-> Num(0)],
             [A |-> Num(1), B |-> Num(0), C |-> Num(0)],
             [A |-> Num(0), B |-> Num(0), C |-> Num(1)],
             [A |-> Num(1), B |-> Num(1), C |-> Num(1)]}

SortSelectors == {"A", "B", "C"}

InitSort ==
    /\ \E rows \in SeqsUpTo(SortRows, MaxSortLen) : df = initFromArray(rows)
    /\ arg = NoArg
    /\ ord = NoOrd
    /\ out = <<>>
    /\ op = "new"
    /\ steps = 0
    /\ inst = NoInst
    /\ calls = 0

SortOrderBy ==
    \E sel \in SortSelectors, dir \in {Ascending, Descending} :
        /\ op = "new"
        /\ ord' = orderBy(df, sel, dir)
        /\ out' = <<[selector |-> sel, direction |-> dir]>>
        /\ op' = "orderBy"
        /\ steps' = steps + 1
        /\ UNCHANGED <<df, arg, inst, calls>>

\* Each call of a chain sorts by a column no earlier call sorted by.
SortThenBy ==
    \E sel \in SortSelectors, dir \in {Ascending, Descending} :
        /\ ord # NoOrd
        /\ \A l \in DOMAIN out : out[l].selector # sel
        /\ ord' = thenBy(ord, sel, dir)
        /\ out' = Append(out, [selector |-> sel, direction |-> dir])
        /\ op' = "thenBy"
        /\ steps' = steps + 1
        /\ UNCHANGED <<df, arg, inst, calls>>

NextSort == SortOrderBy \/ SortThenBy

SpecSort == InitSort /\ [][NextSort]_vars

\* Row a comes strictly before row b in the lexicographic order of the chain
\* of calls: the first call is the most significant.
ChainBefore(chain, a, b) ==
    \E l \in DOMAIN chain :
        /\ \A m \in 1..(l - 1) : Get(a, chain[m].selector) = Get(b, chain[m].selector)
        /\ IF chain[l].direction = Ascending
           THEN Get(a, chain[l].selector).n < Get(b, chain[l].selector).n
           ELSE Get(a, chain[l].selector).n > Get(b, chain[l].selector).n

ChainTie(chain, a, b) ==
    \A l \in DOMAIN chain : Get(a, chain[l].selector) = Get(b, chain[l].selector)

\* Position of the pair with index value i in a pairs sequence.
PositionOf(ps, i) == CHOOSE k \in DOMAIN ps : ps[k][1] = i

\* C2: the rows of orderBy(s0).thenBy(s1)...thenBy(sk) are the rows of df in
\* the lexicographic order of (s0, ..., sk), s0 the most significant.
C2_ChainIsLexicographic ==
    ord # NoOrd =>
        LET res == ord.content.values IN
        /\ Len(res) = Len(df.values)
        /\ \A r \in Range(df.values) :
              Cardinality({k \in DOMAIN res : res[k] = r})
                  = Cardinality({k \in DOMAIN df.values : df.values[k] = r})
        /\ \A i, j \in DOMAIN res : i < j => ~ChainBefore(out, res[j], res[i])

-----------------------------------------------------------------------------
(* Specification SpecWith: df.withSeries("X", arg) for a dataframe df with *)
(* an explicit index and a series arg; out is the content of the result.   *)

WithRows == {[A |-> Num(1)], [A |-> Num(2), X |-> Num(9)]}
WithIndexValues == {Num(0), Num(1), Num(2)}
WithSeriesIndexValues == {Num(0), Num(1)}
WithSeriesValues == {Num(7), Num(8), Undefined}

InitWith ==
    /\ \E n \in 0..MaxWithLen :
       \E rows \in [1..n -> WithRows], index \in [1..n -> WithIndexValues] :
          df = initFromConfig([values |-> rows, index |-> index])
    /\ \E n \in 0..MaxWithLen :
       \E values \in [1..n -> WithSeriesValues],
          index \in [1..n -> WithSeriesIndexValues] :
          arg = SeriesOf(index, values)
    /\ ord = NoOrd
    /\ out = NoOut
    /\ op = "new"
    /\ steps = 0
    /\ inst = NoInst
    /\ calls = 0

WithSeriesX ==
    /\ op = "new"
    /\ out' = withSeries(df, "X", arg)
    /\ op' = "withSeries"
    /\ steps' = steps + 1
    /\ UNCHANGED <<df, arg, ord, inst, calls>>

\* getSeries("X").toArray() style read of the result, kept for comparison.
WithSeriesRead ==
    /\ op = "withSeries"
    /\ op' = "read"
    /\ out' = [X |-> getSeries(out, "X").values,
               index |-> out.index]
    /\ steps' = steps + 1
    /\ UNCHANGED <<df, arg, ord, inst, calls>>

NextWith == WithSeriesX \/ WithSeriesRead

SpecWith == InitWith /\ [][NextWith]_vars

\* The values the series holds at index value i (undefined entries are none).
SeriesAt(series, i) ==
    {series.values[k] : k \in {j \in DOMAIN series.values :
        j \in DOMAIN series.index /\ series.index[j] = i
                                  /\ series.values[j] # Undefined}}

\* The result has df's index and row count; the row at index value i holds in X
\* a value the series has at i, or undefined when it has none; the other
\* columns are those of df's row at the same position.
AlignedByIndex(c, series, r) ==
    /\ r.index = c.index
    /\ Len(r.values) = Len(c.values)
    /\ Len(r.pairs) = Len(c.values)
    /\ \A k \in DOMAIN r.pairs :
          LET i == r.pairs[k][1]
              row == r.pairs[k][2]
          IN  /\ i = c.index[k]
              /\ r.values[k] = row
              /\ IF SeriesAt(series, i) = {} THEN Get(row, "X") = Undefined
                 ELSE Get(row, "X") \in SeriesAt(series, i)
              /\ \A col \in {"A", "B", "C"} : Get(row, col) = Get(c.values[k], col)

\* C4 as stated: for any dataframe and any series, withSeries aligns the
\* series to the dataframe's index by index value.
C4_WithSeriesAligns == op = "withSeries" => AlignedByIndex(df, arg, out)

\* C4 amended: the alignment holds for every dataframe with at least one row.
C4_WithSeriesAlignsNonEmpty ==
    (op = "withSeries" /\ Len(df.values) > 0) => AlignedByIndex(df, arg, out)

\* Two rows whose index values are in the series in the opposite order took
\* the values of their own index values, not those of their positions.
C4_Witness ==
    /\ op = "withSeries"
    /\ Len(df.values) = 2
    /\ df.index = <<Num(1), Num(0)>>
    /\ arg.index = <<Num(0), Num(1)>>
    /\ arg.values = <<Num(7), Num(8)>>
    /\ Get(out.values[1], "X") = Num(8)
    /\ Get(out.values[2], "X") = Num(7)

-----------------------------------------------------------------------------
(* Specification SpecJoin: the joins and the set operators of an outer     *)
(* dataframe df and an inner dataframe arg, keyed by column K.  The keys   *)
(* are the numbers 1 and 2 and the string "1"; an inner row may also have  *)
(* the key "constructor".                                                  *)

JoinKeys == {Num(1), Num(2), Str(1)}
JoinRows == {[K |-> k, V |-> Num(0)] : k \in JoinKeys}
InnerRows == JoinRows \cup {[K |-> Constructor, V |-> Num(0)]}

\* An explicit index that is neither 0-based nor the same for both inputs.
JoinIndex(n, base) == [k \in 1..n |-> Num(base + k)]

InitJoin ==
    /\ \E rows \in SeqsUpTo(JoinRows, MaxJoinLen) :
          df = initFromConfig([values |-> rows, index |-> JoinIndex(Len(rows), 4)])
    /\ \E rows \in SeqsUpTo(InnerRows, MaxJoinLen) :
          arg = initFromConfig([values |-> rows, index |-> JoinIndex(Len(rows), 7)])
    /\ ord = NoOrd
    /\ out = NoOut
    /\ op = "new"
    /\ steps = 0
    /\ inst = NoInst
    /\ calls = 0

\* One call on df with argument arg; out is what it returned.
Call(name, returned) ==
    /\ op = "new"
    /\ out' = returned
    /\ op' = name
    /\ steps' = steps + 1
    /\ UNCHANGED <<df, arg, ord, inst, calls>>

Join == Call("join", join(df, arg, "K", "K"))

JoinOuter == Call("joinOuter", joinOuter(df, arg, "K", "K"))

JoinOuterLeft == Call("joinOuterLeft", joinOuterLeft(df, arg, "K", "K"))

JoinOuterRight == Call("joinOuterRight", joinOuterRight(df, arg, "K", "K"))

\* A.intersection(B), A.except(B) and A.except(B).intersection(B)
SetAlgebra ==
    Call("sets",
         [intersection |-> intersection(df, arg, "K", "K"),
          except |-> except(df, arg, "K", "K"),
          exceptIntersection |->
              intersection(except(df, arg, "K", "K"), arg, "K", "K")])

NextJoin == Join \/ JoinOuter \/ JoinOuterLeft \/ JoinOuterRight \/ SetAlgebra

SpecJoin == InitJoin /\ [][NextJoin]_vars

\* Two keys match in a join when they name the same entry of the key -> rows
\* map, i.e. when they coerce to the same property key.
KeysMatch(a, b) == ToKey(a) = ToKey(b)

\* Two keys are equal for except and intersection when they are ===.
KeysEqual(a, b) == a = b

\* The position pairs (k, j) of matching outer and inner rows, and the j-th
\* result they give: ordered by k, then by j.
MatchedPositions(outer, inner) ==
    {kj \in (DOMAIN outer.values) \X (DOMAIN inner.values) :
        KeysMatch(outer.values[kj[1]].K, inner.values[kj[2]].K)}

MatchedSegment(outer, inner) ==
    LET M == MatchedPositions(outer, inner)
        rank(kj) == Cardinality({m \in M :
                        m[1] < kj[1] \/ (m[1] = kj[1] /\ m[2] <= kj[2])})
    IN  [r \in 1..Cardinality(M) |->
            LET kj == CHOOSE m \in M : rank(m) = r
            IN  [o |-> outer.values[kj[1]], i |-> inner.values[kj[2]]]]

\* The rows of a that match no row of b, in order.
Unmatched(a, b) ==
    SelectSeq(a.values, LAMBDA r :
        \A j \in DOMAIN b.values : ~KeysMatch(r.K, b.values[j].K))

OuterOnlySegment(outer, inner) ==
    [k \in DOMAIN Unmatched(outer, inner) |->
        [o |-> Unmatched(outer, inner)[k], i |-> Null]]

InnerOnlySegment(outer, inner) ==
    [k \in DOMAIN Unmatched(inner, outer) |->
        [o |-> Null, i |-> Unmatched(inner, outer)[k]]]

\* A dataframe holds exactly the rows vs under the index 0, 1, 2, ...
HoldsWithFreshIndex(c, vs) ==
    /\ c # TypeError
    /\ c.values = vs
    /\ c.index = [k \in DOMAIN vs |-> Num(k - 1)]
    /\ c.pairs = [k \in DOMAIN vs |-> <<Num(k - 1), vs[k]>>]

\* C5: join emits exactly one result per matching (outer, inner) pair, in
\* outer then inner order, under the index 0, 1, 2, ...; no match, no rows.
C5_JoinEmitsMatchedPairs ==
    op = "join" => HoldsWithFreshIndex(out, MatchedSegment(df, arg))

\* C6: joinOuter is f(o, null) for each outer row with no matching inner row,
\* then the join results, then f(null, i) for each inner row with no matching
\* outer row, under a fresh index; joinOuterLeft has no third segment and
\* joinOuterRight no first segment.  A row matches as it does in join.
C6_OuterJoinSegments ==
    /\ op = "joinOuter" =>
          HoldsWithFreshIndex(out,
              OuterOnlySegment(df, arg) \o MatchedSegment(df, arg)
                  \o InnerOnlySegment(df, arg))
    /\ op = "joinOuterLeft" =>
          HoldsWithFreshIndex(out,
              OuterOnlySegment(df, arg) \o MatchedSegment(df, arg))
    /\ op = "joinOuterRight" =>
          HoldsWithFreshIndex(out,
              MatchedSegment(df, arg) \o InnerOnlySegment(df, arg))

\* C7: A.except(B).intersection(B) is empty, and A.intersection(B) and
\* A.except(B) partition A: each pair of A is in exactly one of them, with its
\* index, in its original order.
C7_ExceptIntersectionPartition ==
    op = "sets" =>
        LET inB(p) == \E j \in DOMAIN arg.values : KeysEqual(p[2].K, arg.values[j].K)
        IN  /\ out.exceptIntersection.values = <<>>
            /\ out.exceptIntersection.pairs = <<>>
            /\ out.intersection.pairs = SelectSeq(df.pairs, inB)
            /\ out.except.pairs = SelectSeq(df.pairs, LAMBDA p : ~inB(p))
            /\ Congruent(out.intersection)
            /\ Congruent(out.except)
            /\ Len(out.intersection.pairs) + Len(out.except.pairs) = Len(df.pairs)

\* A has a row in the intersection and a row in the difference.
C7_Witness ==
    /\ op = "sets"
    /\ Len(out.intersection.values) = 1
    /\ Len(out.except.values) = 1
    /\ out.except.pairs[1][1] = df.index[1]

\* How many of the results have the row under the field `side` and, under
\* the other field, null (paired = FALSE) or a row (paired = TRUE).
Contributions(results, side, row, paired) ==
    LET other == IF side = "o" THEN "i" ELSE "o"
    IN  Cardinality({k \in DOMAIN results :
            /\ results[k][side] = row
            /\ (results[k][other] # Null) = paired})

\* Every row of `rows` is in the results either once with null or with
\* matching rows of the other side, not both and not neither.
EitherUnmatchedOrMatched(results, side, rows) ==
    \A row \in Range(rows) :
        LET copies == Cardinality({k \in DOMAIN rows : rows[k] = row})
            alone == Contributions(results, side, row, FALSE)
            matched == Contributions(results, side, row, TRUE)
        IN  \/ alone = copies /\ matched = 0
            \/ alone = 0 /\ matched >= copies

\* C29: in the result of joinOuter, joinOuterLeft and joinOuterRight every
\* outer row contributes either exactly one f(o, null) or its results with
\* the matching inner rows, never both and never neither, and likewise every
\* inner row; for all keys, keys of different types that coerce to the same
\* string included.  Stated of the calls that return.
C29_OuterJoinRowsOnce ==
    (op \in {"joinOuter", "joinOuterLeft", "joinOuterRight"} /\ out # TypeError) =>
        /\ op \in {"joinOuter", "joinOuterLeft"} =>
              EitherUnmatchedOrMatched(out.values, "o", df.values)
        /\ op \in {"joinOuter", "joinOuterRight"} =>
              EitherUnmatchedOrMatched(out.values, "i", arg.values)

-----------------------------------------------------------------------------
(* Specification SpecSer: a dataframe of rows with a scalar column A and a *)
(* Date column B, under an index of numbers, of strings or of dates, is    *)
(* serialized, and the serialized form is deserialized.                    *)

SerRows == {[A |-> a, B |-> b] : a \in {Num(1), Str(2)}, b \in {DateV(5), DateV(6)}}

\* The index of n rows, by the type of its values.
SerIndex(kind, n) ==
    [k \in 1..n |-> CASE kind = "number" -> Num(k + 2)
                      [] kind = "string" -> Str(k + 2)
                      [] OTHER -> DateV(k + 2)]

SerColumnNames == {<<>>, <<"A", "B">>, <<"B", "A">>}

InitSer ==
    /\ \E rows \in SeqsUpTo(SerRows, MaxSerLen),
          kind \in {"number", "string", "date"},
          names \in SerColumnNames :
          df = IF names = <<>>
               THEN initFromConfig([values |-> rows,
                                    index |-> SerIndex(kind, Len(rows))])
               ELSE initFromConfig([values |-> rows,
                                    index |-> SerIndex(kind, Len(rows)),
                                    columnNames |-> names])
    /\ arg = NoArg
    /\ ord = NoOrd
    /\ out = NoOut
    /\ op = "new"
    /\ steps = 0
    /\ inst = NoInst
    /\ calls = 0

\* df.serialize()
Serialize ==
    /\ op = "new"
    /\ out' = serialize(df)
    /\ op' = "serialize"
    /\ steps' = steps + 1
    /\ UNCHANGED <<df, arg, ord, inst, calls>>

\* DataFrame.deserialize(serialized): arg keeps the serialized form.
Deserialize ==
    /\ op = "serialize"
    /\ out # Error
    /\ arg' = out
    /\ out' = deserialize(out)
    /\ op' = "deserialize"
    /\ steps' = steps + 1
    /\ UNCHANGED <<df, ord, inst, calls>>

NextSer == Serialize \/ Deserialize

SpecSer == InitSer /\ [][NextSer]_vars

\* C8: serialize() succeeds, and deserializing what it returned gives a
\* dataframe with the same toArray(), column order and index values.
C8_SerializeRoundTrip ==
    /\ op = "serialize" => out # Error
    /\ op = "deserialize" =>
          /\ toArray(out) = toArray(df)
          /\ getColumnNames(out) = getColumnNames(df)
          /\ out.index = df.index

-----------------------------------------------------------------------------
(* Specification SpecLazy: an instance is constructed from a configuration *)
(* function and its content is accessed.  A configuration function is      *)
(* data: the number of invocations that still throw (the state of its      *)
(* closure), whether the fields of the configuration it then returns are   *)
(* iterable, and that configuration.                                       *)

NoContent == [null |-> TRUE]                 \* this.content === null

LazyRows == {[A |-> Num(0)], [A |-> Num(1)]}

LazyConfigFns ==
    {[failures |-> f, iterable |-> i, config |-> [values |-> rows]] :
        f \in {0, 1, MaxCalls}, i \in BOOLEAN, rows \in SeqsUpTo(LazyRows, MaxLen)}

\* The DataFrame constructor given a function: the function is stored.
constructor(config) == [configFn |-> config, content |-> NoContent]

\* DataFrame.checkIterable throws for a field that is not iterable.
checkIterableFails(configFn) == ~configFn.iterable

\* lazyInit without the test for content that is already initialised.
lazyInitAlways(this) ==
    IF this.configFn.failures > 0
    THEN [this |-> [this EXCEPT !.configFn.failures = @ - 1],
          invoked |-> 1, threw |-> TRUE]
    ELSE IF checkIterableFails(this.configFn)
    THEN [this |-> this, invoked |-> 1, threw |-> TRUE]
    ELSE [this |-> [this EXCEPT !.content = initFromConfig(this.configFn.config)],
          invoked |-> 1, threw |-> FALSE]

\* DataFrame.lazyInit (configFn is never null here): the instance after the
\* call, the number of invocations of configFn, and whether the call threw.
lazyInit(this) ==
    IF this.content = NoContent
    THEN IF this.configFn.failures > 0
         THEN [this |-> [this EXCEPT !.configFn.failures = @ - 1],
               invoked |-> 1, threw |-> TRUE]
         ELSE IF checkIterableFails(this.configFn)
         THEN [this |-> this, invoked |-> 1, threw |-> TRUE]
         ELSE [this |-> [this EXCEPT !.content = initFromConfig(this.configFn.config)],
               invoked |-> 1, threw |-> FALSE]
    ELSE [this |-> this, invoked |-> 0, threw |-> FALSE]

\* DataFrame.getContent
getContent(this) == lazyInit(this)

\* DataFrame.getIndex, traversed.
getIndex(c) == c.index

\* What an access returns from the content: toArray(), count(),
\* getColumnNames(), getIndex() traversed, or skip(1).toArray() on the derived
\* dataframe, which reads this instance's content.
Read(name, c) ==
    CASE name = "toArray" -> toArray(c)
      [] name = "count" -> count(c)
      [] name = "getColumnNames" -> getColumnNames(c)
      [] name = "getIndex" -> getIndex(c)
      [] OTHER -> toArray(skip(c, 1))

InitLazy ==
    /\ \E configFn \in LazyConfigFns : inst = constructor(configFn)
    /\ calls = 0
    /\ df = initEmpty
    /\ arg = NoArg
    /\ ord = NoOrd
    /\ out = NoOut
    /\ op = "new"
    /\ steps = 0

\* One access to the content of the instance; out is what the caller gets.
Access(name) ==
    /\ steps < MaxCalls
    /\ LET got == getContent(inst)
       IN  /\ inst' = got.this
           /\ calls' = calls + got.invoked
           /\ out' = IF got.threw THEN Error ELSE Read(name, got.this.content)
    /\ op' = name
    /\ steps' = steps + 1
    /\ UNCHANGED <<df, arg, ord>>

LazyToArray == Access("toArray")

LazyCount == Access("count")

LazyGetColumnNames == Access("getColumnNames")

LazyGetIndex == Access("getIndex")

\* inst.skip(1).toArray(): the derived dataframe reads inst's content.
LazyDerived == Access("derived")

NextLazy ==
    LazyToArray \/ LazyCount \/ LazyGetColumnNames \/ LazyGetIndex \/ LazyDerived

SpecLazy == InitLazy /\ [][NextLazy]_vars

\* C10: the configuration function is not invoked by the constructor, is
\* invoked by the first access, and is invoked at most once in every state.
C10_InvokedAtMostOnce ==
    /\ op = "new" => calls = 0
    /\ op # "new" => calls >= 1
    /\ calls <= 1

\* C10, amended: the configuration function is not invoked by the
\* constructor, is invoked by every access made while the content is not
\* initialised, and is never invoked once the content is initialised.
C10_InvokedUntilInitialised ==
    /\ calls = 0
    /\ [][/\ inst.content = NoContent => calls' = calls + 1
          /\ inst.content # NoContent => calls' = calls /\ inst' = inst]_vars

\* The first access failed, the second initialised the content, and there
\* was a third access.
C10_Witness ==
    /\ steps = 3
    /\ calls = 2
    /\ inst.content # NoContent
    /\ out # Error

-----------------------------------------------------------------------------
(* Row objects with identity.  A heap is the sequence of the objects       *)
(* allocated so far, a row of a dataframe is a reference to one of them,   *)
(* and a row function allocates, writes and deletes as its code does.      *)

Ref(id) == [ref |-> id]

\* No copy: the object itself.
CloneNone(heap, r) == [heap |-> heap, ref |-> r.ref]

\* Object.assign({}, value): a new object with the fields of value.
Clone(heap, r) == [heap |-> Append(heap, heap[r.ref]), ref |-> Len(heap) + 1]

\* delete object[field]
Delete(object, field) == [f \in (DOMAIN object) \ {field} |-> object[f]]

\* String.prototype.substring(0, maxLength) of a numeral of up to two digits.
substring(v, maxLength) ==
    IF v.n >= 10 /\ maxLength < 2 THEN Str(v.n \div 10) ELSE v

\* renameSeries, remapValue: clone the row, copy the old field to the new
\* name and delete the old one.
remapValue(heap, pair, param) ==
    LET clone == Clone(heap, pair[2])
        object == clone.heap[clone.ref]
        renamed == Delete(Assign(object, param.new, Get(object, param.old)),
                          param.old)
    IN  [heap |-> [clone.heap EXCEPT ![clone.ref] = renamed], ref |-> clone.ref]

\* dropSeries, the row function: clone the row and delete the column.
dropSeriesRow(heap, pair, param) ==
    LET clone == Clone(heap, pair[2])
    IN  [heap |-> [clone.heap EXCEPT ![clone.ref] = Delete(@, param.column)],
         ref |-> clone.ref]

\* withSeries, the pair function: clone the row and set the column to the
\* value the series has at the index of the pair.
withSeriesRow(heap, pair, param) ==
    LET modified == Clone(heap, pair[2])
    IN  [heap |-> [modified.heap EXCEPT ![modified.ref] =
                      Assign(@, param.column,
                             MapGet(seriesToPairs(param.series), pair[1]))],
         ref |-> modified.ref]

\* truncateStrings, the row function: a new object with every field of the
\* row, the strings cut to maxLength.
truncateStringsRow(heap, pair, param) ==
    LET row == heap[pair[2].ref]
        output == [key \in DOMAIN row |->
                      IF row[key].t = "string"
                      THEN substring(row[key], param.maxLength) ELSE row[key]]
    IN  [heap |-> Append(heap, output), ref |-> Len(heap) + 1]

\* The row function of an operator, by the operator's name.
RowFn(name, heap, pair, param) ==
    CASE name = "renameSeries" -> remapValue(heap, pair, param)
      [] name = "dropSeries" -> dropSeriesRow(heap, pair, param)
      [] name = "withSeries" -> withSeriesRow(heap, pair, param)
      [] OTHER -> truncateStringsRow(heap, pair, param)

\* One traversal of the pairs through a row function: the heap after it and
\* the pairs it yielded.
RECURSIVE TraversePairs(_, _, _, _)
TraversePairs(name, heap, pairs, param) ==
    IF pairs = <<>> THEN [heap |-> heap, pairs |-> <<>>]
    ELSE LET row == RowFn(name, heap, Head(pairs), param)
             rest == TraversePairs(name, row.heap, Tail(pairs), param)
         IN  [heap |-> rest.heap,
              pairs |-> <<<<Head(pairs)[1], Ref(row.ref)>>>> \o rest.pairs]

\* The column names of the dataframe an operator derives.
DerivedColumnNames(name, c, param) ==
    CASE name = "renameSeries" ->
            [k \in DOMAIN c.columnNames |->
                IF c.columnNames[k] = param.old THEN param.new
                ELSE c.columnNames[k]]
      [] name = "dropSeries" ->
            SelectSeq(c.columnNames, LAMBDA n : n # param.column)
      [] name = "withSeries" ->
            makeDistinct(getColumnNames(c) \o <<param.column>>)
      [] OTHER -> c.columnNames

\* The dataframe a row-wise operator derives from c, traversed once through
\* its values and once through its pairs.
Derive(name, heap, c, param) ==
    LET viaValues == TraversePairs(name, heap, MultiIterable(c.index, c.values), param)
        viaPairs == TraversePairs(name, viaValues.heap, c.pairs, param)
    IN  [heap |-> viaPairs.heap,
         content |-> initFromConfig([
            columnNames |-> DerivedColumnNames(name, c, param),
            index |-> c.index,
            values |-> ExtractElementIterable(viaValues.pairs, 1),
            pairs |-> viaPairs.pairs])]

\* The content a caller observes: every row reference replaced by the
\* object it refers to.
Deref(heap, c) ==
    [toArray |-> [k \in DOMAIN toArray(c) |-> heap[toArray(c)[k].ref]],
     toPairs |-> [k \in DOMAIN toPairs(c) |->
                    <<toPairs(c)[k][1], heap[toPairs(c)[k][2].ref]>>],
     columnNames |-> getColumnNames(c)]

\* The dataframe of the rows that are on the heap: new DataFrame(rows).
FrameOf(heap) ==
    [initFromArray([k \in DOMAIN heap |-> Ref(k)])
        EXCEPT !.columnNames = ColumnNamesIterable(heap)]

\* orderBy over references: the selector reads the row a reference points
\* to, and the sorted dataframe holds the same row objects.
orderByRefs(heap, c, selector) ==
    initFromConfig([
        columnNames |-> ColumnNamesIterable(
            [k \in DOMAIN c.values |-> heap[c.values[k].ref]]),
        values |-> OrderedIterable(c.values,
            <<makeSortSpec(0,
                [v \in Range(c.values) |-> Selector(selector, heap[v.ref])],
                Ascending)>>),
        pairs |-> OrderedIterable(c.pairs,
            <<makeSortSpec(0,
                [pair \in Range(c.pairs) |->
                    Selector(selector, heap[pair[2].ref])],
                Ascending)>>)])

\* pivot(column, valueColumn, aggregator) with the aggregator
\* values => values.count(): one traversal of the pivotted rows.  Each group
\* gets a new output object that holds the column's value and the group in
\* src; the inflate selector writes the aggregate into that object and
\* deletes src from it.  The rows of the receiver are only read.
pivotRows(heap, c, param) ==
    LET rows == [k \in DOMAIN c.pairs |-> <<c.pairs[k][1], heap[c.pairs[k][2].ref]>>]
        groups == groupBy(initFromConfig([pairs |-> rows]), param.column)
        output(g) ==
            LET created == [o \in {param.column, "src"} |->
                              IF o = "src" THEN Num(0)
                              ELSE Get(first(groups[g]), param.column)]
                written == Assign(created, param.valueColumn,
                                  Num(count(groups[g])))
            IN  Delete(written, "src")
    IN  [heap |-> heap \o [g \in DOMAIN groups |-> output(g)],
         pairs |-> [g \in DOMAIN groups |-> <<Num(g - 1), Ref(Len(heap) + g)>>]]

\* DataFrame.pivot, traversed once through its values and once through its
\* pairs, ordered by the pivot column.
pivot(heap, c, param) ==
    LET viaValues == pivotRows(heap, c, param)
        viaPairs == pivotRows(viaValues.heap, c, param)
    IN  [heap |-> viaPairs.heap,
         content |-> orderByRefs(viaPairs.heap,
            initFromConfig([
                values |-> ExtractElementIterable(viaValues.pairs, 1),
                pairs |-> viaPairs.pairs]),
            param.column)]

-----------------------------------------------------------------------------
(* The receiver is never modified: SpecFrame.  inst is the heap, df the    *)
(* receiver built from the rows the heap starts with, arg what the         *)
(* receiver's reads returned before any operator was called, out the       *)
(* dataframe the last operator derived.                                    *)

FrameRows == [K : {Num(1), Num(2)}, V : {Str(12)}]

FrameColumns == {"K", "V"}

\* The dataframes an operator can be called on: the receiver and what was
\* derived from it.
FrameTargets == {df} \cup (IF out = NoOut THEN {} ELSE {out})

InitFrame ==
    /\ inst \in SeqsUpTo(FrameRows, MaxFrameLen)
    /\ df = FrameOf(inst)
    /\ arg = [observed |-> Deref(inst, df), rows |-> inst]
    /\ out = NoOut
    /\ ord = NoOrd
    /\ op = "new"
    /\ steps = 0
    /\ calls = 0

\* One operator call on c and the traversal of what it returned.
FrameCall(name, derived) ==
    /\ steps < MaxOps
    /\ inst' = derived.heap
    /\ out' = derived.content
    /\ op' = name
    /\ steps' = steps + 1
    /\ UNCHANGED <<df, arg, ord, calls>>

FrameWithSeries ==
    \E c \in FrameTargets, column \in {"V", "X"} :
        /\ ~none(c)
        /\ FrameCall("withSeries", Derive("withSeries", inst, c,
              [column |-> column,
               series |-> SeriesOf(CountIterable(1), <<Num(7)>>)]))

FrameDropSeries ==
    \E c \in FrameTargets, column \in FrameColumns :
        FrameCall("dropSeries", Derive("dropSeries", inst, c, [column |-> column]))

FrameRenameSeries ==
    \E c \in FrameTargets, old \in FrameColumns :
        FrameCall("renameSeries",
                  Derive("renameSeries", inst, c, [old |-> old, new |-> "X"]))

FrameTruncateStrings ==
    \E c \in FrameTargets, maxLength \in 1..2 :
        FrameCall("truncateStrings",
                  Derive("truncateStrings", inst, c, [maxLength |-> maxLength]))

FramePivot ==
    \E c \in FrameTargets :
        /\ \A k \in DOMAIN c.values : "K" \in DOMAIN inst[c.values[k].ref]
        /\ FrameCall("pivot", pivot(inst, c, [column |-> "K", valueColumn |-> "V"]))

FrameOrderBy ==
    \E c \in FrameTargets :
        /\ \A k \in DOMAIN c.values : "K" \in DOMAIN inst[c.values[k].ref]
        /\ FrameCall("orderBy",
                     [heap |-> inst, content |-> orderByRefs(inst, c, "K")])

FrameBake ==
    \E c \in FrameTargets :
        FrameCall("bake", [heap |-> inst, content |-> bake(c).content])

NextFrame ==
    \/ FrameWithSeries
    \/ FrameDropSeries
    \/ FrameRenameSeries
    \/ FrameTruncateStrings
    \/ FramePivot
    \/ FrameOrderBy
    \/ FrameBake

SpecFrame == InitFrame /\ [][NextFrame]_vars

\* C11: after any sequence of operator calls on the receiver and on what was
\* derived from it, and the traversal of every derived dataframe, the
\* receiver's toArray(), toPairs() and getColumnNames() return what they
\* returned before, and the row objects it was built from are unmodified.
C11_ReceiverUnchanged ==
    /\ Deref(inst, df) = arg.observed
    /\ SubSeq(inst, 1, Len(arg.rows)) = arg.rows

\* Two operators were applied in a chain, the traversals allocated new row
\* objects, and the derived rows differ from the receiver's.
C11_Witness ==
    /\ steps = 2
    /\ Len(arg.rows) = MaxFrameLen
    /\ Len(inst) > Len(arg.rows)
    /\ op \in {"renameSeries", "withSeries", "dropSeries", "truncateStrings", "pivot"}
    /\ Deref(inst, out).toArray # arg.observed.toArray

-----------------------------------------------------------------------------
(* Iterators: SpecIter.  df is a dataframe built from an array, out is     *)
(* df.where(arg), which pulls from the values of df, and inst is the       *)
(* sequence of the iterators that were obtained from the two instances.    *)
(* An iterator holds its own cursor: the number of elements it has pulled  *)
(* from the values of df.                                                  *)

IterRows == [A : {Num(0), Num(1)}]

\* An iterator that starts where the iterators before it have got to.
SharedIterator(its, on) ==
    [on |-> on,
     cursor |-> IF its = <<>> THEN 0
                ELSE its[CHOOSE i \in DOMAIN its :
                            \A j \in DOMAIN its : its[j].cursor <= its[i].cursor].cursor,
     yielded |-> <<>>, done |-> FALSE]

\* DataFrame[Symbol.iterator]: getContent().values[Symbol.iterator](), a new
\* iterator at the start of the values.
NewIterator(its, on) ==
    [on |-> on, cursor |-> 0, yielded |-> <<>>, done |-> FALSE]

\* iterator.next().  On df the next element of the array; on df.where(p) the
\* next element of df's values that passes p, pulled through an upstream
\* iterator of its own.
IteratorNext(it, values, predicate) ==
    LET passes(k) == it.on = "df" \/ Predicate(predicate, values[k])
        rest == {k \in (it.cursor + 1)..Len(values) : passes(k)}
        next == CHOOSE k \in rest : \A j \in rest : k <= j
    IN  IF it.done \/ rest = {}
        THEN [it EXCEPT !.done = TRUE, !.cursor = IF it.done THEN @ ELSE Len(values)]
        ELSE [it EXCEPT !.cursor = next, !.yielded = Append(@, values[next])]

\* The values a complete traversal of the instance yields.
FullValues(on) == IF on = "df" THEN df.values ELSE out.values

InitIter ==
    /\ \E rows \in SeqsUpTo(IterRows, MaxLen) : df = initFromArray(rows)
    /\ arg \in [col : {"A"}, val : {Num(0), Num(1)}]
    /\ out = where(df, [v \in Range(df.values) |-> Predicate(arg, v)])
    /\ inst = <<>>
    /\ ord = NoOrd
    /\ op = "new"
    /\ steps = 0
    /\ calls = 0

\* for (const row of instance): a new iterator is obtained.
IterOpen ==
    /\ Len(inst) < MaxIters
    /\ \E on \in {"df", "where"} :
        inst' = Append(inst, NewIterator(inst, on))
    /\ op' = "iterator"
    /\ UNCHANGED <<df, arg, out, ord, steps, calls>>

\* One iterator is advanced by one step.
IterNext ==
    /\ \E i \in DOMAIN inst :
        /\ ~inst[i].done
        /\ inst' = [inst EXCEPT ![i] = IteratorNext(@, df.values, arg)]
    /\ op' = "next"
    /\ UNCHANGED <<df, arg, out, ord, steps, calls>>

\* One iterator is abandoned (break): it is dropped, the others stay.
IterAbandon ==
    /\ \E i \in DOMAIN inst :
        /\ ~inst[i].done
        /\ inst' = [k \in 1..(Len(inst) - 1) |->
                        IF k < i THEN inst[k] ELSE inst[k + 1]]
    /\ steps < MaxOps
    /\ steps' = steps + 1
    /\ op' = "return"
    /\ UNCHANGED <<df, arg, out, ord, calls>>

NextIter ==
    \/ IterOpen
    \/ IterNext
    \/ IterAbandon

SpecIter == InitIter /\ [][NextIter]_vars

-----------------------------------------------------------------------------
(* Runs, groups and distinct rows.                                         *)

\* a === b for the scalar keys a selector returns.
StrictEquals(a, b) == a = b

\* DataFrameVariableWindowIterable (./iterables): the pairs are cut into
\* windows wherever the comparer says no for two adjacent rows.
variableWindow(c, comparer) ==
    LET starts == {k \in DOMAIN c.pairs :
                      k = 1 \/ ~comparer[<<c.pairs[k - 1][2], c.pairs[k][2]>>]}
        start == AtPositions([k \in DOMAIN c.pairs |-> k], starts)
        end(w) == IF w = Len(start) THEN Len(c.pairs) ELSE start[w + 1] - 1
        windows == [w \in DOMAIN start |->
                      initFromConfig([columnNames |-> c.columnNames,
                                      pairs |-> SubSeq(c.pairs, start[w], end(w))])]
    IN  SeriesOf(CountIterable(Len(windows)), windows)

\* DataFrame.sequentialDistinct: of each window the pair
\* [window.getIndex().first(), window.first()], then withIndex(pair => pair[0])
\* and inflate(pair => pair[1]).
sequentialDistinct(c, selector) ==
    LET windows == variableWindow(c,
            [ab \in Range(c.values) \X Range(c.values) |->
                StrictEquals(Selector(selector, ab[1]), Selector(selector, ab[2]))])
        selected == [w \in DOMAIN windows.values |->
                        <<getIndex(windows.values[w])[1], first(windows.values[w])>>]
    IN  initFromConfig([
            values |-> ExtractElementIterable(selected, 1),
            index |-> ExtractElementIterable(selected, 0)])

\* DataFrame.union
union(c, other, selector) == distinct(concat(c, other), selector)

-----------------------------------------------------------------------------
(* SpecKeys: df is the receiver, with an index of its own, arg the other   *)
(* dataframe of a union, out what the operator named in op returned.  The  *)
(* selector is row => row.K.                                               *)

KeysKeys == {Num(0), Null, Num(1), Str(1), Constructor}

KeysRows == [K : KeysKeys]

\* The index value of the k-th row of the receiver.
KeysIndex(n) == [k \in 1..n |-> Num(10 + k)]

InitKeys ==
    /\ \E rows \in SeqsUpTo(KeysRows, MaxKeysLen) :
        df = initFromConfig([values |-> rows, index |-> KeysIndex(Len(rows))])
    /\ \E rows \in SeqsUpTo(KeysRows, 1) :
        arg = initFromConfig([values |-> rows,
                              index |-> [k \in 1..Len(rows) |-> Num(20 + k)]])
    /\ out = NoOut
    /\ ord = NoOrd
    /\ inst = NoInst
    /\ op = "new"
    /\ steps = 0
    /\ calls = 0

\* One operator call on the receiver and the traversal of what it returned.
KeysCall(name, returned) ==
    /\ steps < MaxOps
    /\ out' = returned
    /\ op' = name
    /\ steps' = steps + 1
    /\ UNCHANGED <<df, arg, ord, inst, calls>>

KeysSequentialDistinct == KeysCall("sequentialDistinct", sequentialDistinct(df, "K"))

KeysGroupBy ==
    KeysCall("groupBy",
             IF existingGroupFails(df, "K") THEN TypeError
             ELSE [groups |-> groupBy(df, "K")])

KeysDistinct == KeysCall("distinct", distinct(df, "K"))

KeysUnion == KeysCall("union", union(df, arg, "K"))

NextKeys ==
    \/ KeysSequentialDistinct
    \/ KeysGroupBy
    \/ KeysDistinct
    \/ KeysUnion

SpecKeys == InitKeys /\ [][NextKeys]_vars

\* The positions at which a maximal run of adjacent rows with === selector
\* values ends.
RunEnds(c, selector) ==
    {k \in DOMAIN c.pairs :
        \/ k = Len(c.pairs)
        \/ ~StrictEquals(Selector(selector, c.pairs[k][2]),
                         Selector(selector, c.pairs[k + 1][2]))}

\* C13: sequentialDistinct(selector) returns exactly one row per maximal run
\* of adjacent rows with equal selector value, namely the last row of the
\* run together with that row's index value, in run order.
C13_SequentialDistinctKeepsLast ==
    op = "sequentialDistinct" =>
        /\ out.pairs = AtPositions(df.pairs, RunEnds(df, "K"))
        /\ out.values = AtPositions(df.values, RunEnds(df, "K"))
        /\ out.index = AtPositions(df.index, RunEnds(df, "K"))

\* The string key of the row of a pair under the selector row => row.K.
GroupKey(pair) == ToKey(Selector("K", pair[2]))

\* C14: groupBy(selector) partitions the pairs: every pair of the receiver is
\* in exactly one group, two pairs are in the same group exactly when their
\* selector outputs coerce to the same string key, a group keeps the
\* receiver's order and index values, and the groups are in the order in
\* which their keys first appear.
C14_GroupByPartitions ==
    op = "groupBy" =>
        /\ out # TypeError
        /\ \A k \in DOMAIN df.pairs :
              Cardinality({g \in DOMAIN out.groups :
                              df.pairs[k] \in Range(out.groups[g].pairs)}) = 1
        /\ \A g \in DOMAIN out.groups :
              out.groups[g].pairs =
                  SelectSeq(df.pairs,
                      LAMBDA pair : GroupKey(pair) = GroupKey(out.groups[g].pairs[1]))
        /\ \A g, h \in DOMAIN out.groups :
              g < h =>
                  \E k \in DOMAIN df.pairs :
                      /\ df.pairs[k] = out.groups[g].pairs[1]
                      /\ \A j \in 1..k : df.pairs[j] # out.groups[h].pairs[1]

\* The positions of the rows that are the first with their key.
FirstOfKey(c, selector) ==
    {k \in DOMAIN c.pairs :
        \A j \in 1..(k - 1) :
            ToKey(Selector(selector, c.pairs[j][2]))
                # ToKey(Selector(selector, c.pairs[k][2]))}

\* C15: distinct(selector) returns, in first-occurrence order, exactly the
\* first row of each key, and the same rows through its values and through
\* its pairs, whatever the key values are; a.union(b, selector) is
\* a.concat(b).distinct(selector).
C15_DistinctKeepsFirstPerKey ==
    /\ op = "distinct" =>
        /\ out.values = AtPositions(df.values, FirstOfKey(df, "K"))
        /\ out.pairs = AtPositions(df.pairs, FirstOfKey(df, "K"))
    /\ op = "union" =>
        /\ out = distinct(concat(df, arg), "K")
        /\ out.values = AtPositions(concat(df, arg).values,
                                    FirstOfKey(concat(df, arg), "K"))
        /\ out.pairs = AtPositions(concat(df, arg).pairs,
                                   FirstOfKey(concat(df, arg), "K"))

-----------------------------------------------------------------------------
(* Reads of rows and columns.                                              *)

\* new Error(message): the message is the sequence of its parts.
ErrorWith(message) == [threw |-> "Error", message |-> message]

\* first() that returns undefined for a dataframe without rows.
firstOrUndefined(c) ==
    IF Len(c.values) > 0 THEN [value |-> c.values[1]] ELSE [value |-> Undefined]

\* DataFrame.first as a call: the first value of the iteration, or the error.
firstRow(c) ==
    IF Len(c.values) > 0 THEN [value |-> c.values[1]]
    ELSE ErrorWith(<<"No values in Series.">>)

\* DataFrame.last as a call: lastValue starts as null, takes every value of
\* the iteration in turn, and the error is thrown when it is null at the end.
lastRow(c) ==
    LET lastValue == IF Len(c.values) > 0 THEN c.values[Len(c.values)] ELSE Null
    IN  IF lastValue = Null THEN ErrorWith(<<"No values in Series.">>)
        ELSE [value |-> lastValue]

\* DataFrame.hasSeries: the names are compared in lower case.
hasSeries(c, columnName) ==
    \E k \in DOMAIN getColumnNames(c) :
        ToLower(getColumnNames(c)[k]) = ToLower(columnName)

\* DataFrame.expectSeries
expectSeries(c, columnName) ==
    IF ~hasSeries(c, columnName)
    THEN ErrorWith(<<"Expected dataframe to contain series with column name: '",
                     columnName, "'.">>)
    ELSE [series |-> getSeries(c, columnName)]

-----------------------------------------------------------------------------
(* SpecReads: df is the dataframe, arg the column name that is asked for,  *)
(* out what each read returned, with the names of the reads made so far in *)
(* out.called.                                                             *)

ReadsRows == {[A |-> Num(1)], [A |-> Null], [B |-> Num(2)], Null, Undefined}

ReadsNames == {"A", "a", "B"}

ReadsNone == [value |-> Undefined]

InitReads ==
    /\ \E rows \in SeqsUpTo(ReadsRows, MaxLen) :
        df = initFromConfig([values |-> rows,
                             index |-> [k \in 1..Len(rows) |-> Num(10 + k)]])
    /\ arg \in ReadsNames
    /\ out = [called |-> {}, toArray |-> <<>>, toPairs |-> <<>>,
              first |-> ReadsNone, last |-> ReadsNone, hasSeries |-> FALSE,
              getSeries |-> ReadsNone, expectSeries |-> ReadsNone]
    /\ ord = NoOrd
    /\ inst = NoInst
    /\ op = "new"
    /\ steps = 0
    /\ calls = 0

\* One read of the dataframe; the dataframe is left as it is.
ReadCall(name, returned) ==
    /\ name \notin out.called
    /\ out' = [out EXCEPT !.called = @ \cup {name}, ![name] = returned]
    /\ op' = name
    /\ UNCHANGED <<df, arg, ord, inst, steps, calls>>

ReadToArray == ReadCall("toArray", toArray(df))

ReadToPairs == ReadCall("toPairs", toPairs(df))

ReadFirst == ReadCall("first", firstRow(df))

ReadLast == ReadCall("last", lastRow(df))

ReadHasSeries == ReadCall("hasSeries", hasSeries(df, arg))

ReadGetSeries == ReadCall("getSeries", [series |-> getSeries(df, arg)])

ReadExpectSeries == ReadCall("expectSeries", expectSeries(df, arg))

NextReads ==
    \/ ReadToArray
    \/ ReadToPairs
    \/ ReadFirst
    \/ ReadLast
    \/ ReadHasSeries
    \/ ReadGetSeries
    \/ ReadExpectSeries

SpecReads == InitReads /\ [][NextReads]_vars

\* C16: toArray() and toPairs() both omit exactly the entries whose value is
\* undefined and no others, so the values of toPairs() are toArray(), element
\* for element and in length.
C16_ToArrayToPairsOmitUndefined ==
    {"toArray", "toPairs"} \subseteq out.called =>
        /\ out.toArray = SelectSeq(df.values, LAMBDA v : v # Undefined)
        /\ out.toPairs = SelectSeq(df.pairs, LAMBDA pair : pair[2] # Undefined)
        /\ Len(out.toPairs) = Len(out.toArray)
        /\ ExtractElementIterable(out.toPairs, 1) = out.toArray

\* C17: first() and last() of a dataframe without rows end in an explicit
\* error, not in undefined, null or another value.
C17_FirstLastFailOnEmpty ==
    none(df) =>
        /\ "first" \in out.called =>
              /\ "threw" \in DOMAIN out.first
              /\ out.first.message = <<"No values in Series.">>
        /\ "last" \in out.called =>
              /\ "threw" \in DOMAIN out.last
              /\ out.last.message = <<"No values in Series.">>

\* first() and last() were both called on a dataframe without rows.
C17_Witness ==
    /\ none(df)
    /\ {"first", "last"} \subseteq out.called
    /\ out.first = ErrorWith(<<"No values in Series.">>)

\* Whether every row is an object and name is neither one of the dataframe's
\* column names nor a field of one of its rows.
NotAColumn(c, name) ==
    /\ \A k \in DOMAIN getColumnNames(c) : getColumnNames(c)[k] # name
    /\ \A k \in DOMAIN c.values : IsObject(c.values[k]) /\ name \notin DOMAIN c.values[k]

\* C18: for a name that is not a column of the dataframe (none of its column
\* names and a field of none of its rows, which are all objects),
\* expectSeries(name) throws an error whose message contains the name,
\* hasSeries(name) is false and getSeries(name) is a series with the
\* dataframe's index that is undefined everywhere; and when expectSeries(name)
\* does not throw, the series it returns holds the values of the column it
\* was asked for.
C18_MissingColumnAccess ==
    /\ NotAColumn(df, arg) =>
        /\ "expectSeries" \in out.called =>
              /\ "threw" \in DOMAIN out.expectSeries
              /\ arg \in Range(out.expectSeries.message)
        /\ "hasSeries" \in out.called => ~out.hasSeries
        /\ "getSeries" \in out.called =>
              /\ out.getSeries.series.index = df.index
              /\ \A k \in DOMAIN out.getSeries.series.values :
                    out.getSeries.series.values[k] = Undefined
    /\ "expectSeries" \in out.called /\ "threw" \notin DOMAIN out.expectSeries =>
        \E k \in DOMAIN getColumnNames(df) :
            /\ ToLower(getColumnNames(df)[k]) = ToLower(arg)
            /\ out.expectSeries.series.values =
                  [j \in DOMAIN df.values |->
                      Get(df.values[j], getColumnNames(df)[k])]

-----------------------------------------------------------------------------
(* Argument validation and the invocation of user functions.  An argument  *)
(* is a function (one that returns, or one that throws when it is          *)
(* invoked), a number, a string or undefined.  An outcome says in which    *)
(* phase it arose (the operator call, or the traversal of what the call    *)
(* returned), what was thrown, whether the call returned a derived         *)
(* dataframe, and how often the call invoked the user function.            *)

Fn(throws) == [t |-> "function", n |-> IF throws THEN 1 ELSE 0]

isFunction(v) == v.t = "function"

isNumber(v) == v.t = "number"

\* The assert.* checks at the head of each operator: whether they throw.
assertFails(name, a) ==
    CASE name \in {"where", "select", "variableWindow", "generateSeries",
                   "withSeries"} -> ~isFunction(a)
      [] name \in {"skip", "take", "window"} -> ~isNumber(a)
      [] name \in {"sequentialDistinct", "union"} -> Truthy(a) /\ ~isFunction(a)
      [] OTHER -> FALSE       \* distinct, orderBy, startAt, zip: no check

\* How often the operator call itself invokes the function it was given.
\* generateSeries bakes this.select(generator): toArray() and toPairs() each
\* invoke it for every row.  withSeries invokes the series function at once
\* when the receiver has no rows.
invokedByCall(name, c, a) ==
    CASE name = "generateSeries" -> 2 * Len(c.values)
      [] name = "withSeries" -> IF none(c) THEN 1 ELSE 0
      [] OTHER -> 0

\* Whether the traversal of the derived dataframe invokes the argument.
invokedByTraversal(name, c, a) ==
    CASE name \in {"where", "select", "orderBy", "zip"} -> ~none(c)
      [] name \in {"distinct", "union"} -> Truthy(a) /\ ~none(c)
      [] name \in {"variableWindow", "sequentialDistinct"} -> Len(c.values) > 1
      [] name = "withSeries" -> ~none(c)
      [] OTHER -> FALSE       \* skip, take, window, startAt, generateSeries

\* The operator call.
operatorCall(name, c, a) ==
    IF assertFails(name, a)
    THEN [at |-> "call", threw |-> "AssertionError", returned |-> FALSE, invoked |-> 0]
    ELSE IF invokedByCall(name, c, a) > 0 /\ a = Fn(TRUE)
    THEN [at |-> "call", threw |-> "UserError", returned |-> FALSE, invoked |-> 1]
    ELSE [at |-> "call", threw |-> "none", returned |-> TRUE,
          invoked |-> invokedByCall(name, c, a)]

\* toArray() on what the call returned.
traversal(name, c, a) ==
    [at |-> "traversal",
     threw |-> IF ~invokedByTraversal(name, c, a) THEN "none"
               ELSE IF ~isFunction(a) THEN "TypeError"
               ELSE IF a = Fn(TRUE) THEN "UserError" ELSE "none",
     returned |-> TRUE,
     invoked |-> 0]

-----------------------------------------------------------------------------
(* SpecArgs: df is the receiver, inst what it was before the call, arg the *)
(* argument of the last call, op the operator, out the outcome.            *)

ArgsRows == [K : {Num(1), Num(2)}]

ArgsValues == {Fn(FALSE), Fn(TRUE), Num(1), Num(2), Str(1), Undefined}

ArgsOperators ==
    {"where", "select", "skip", "take", "window", "variableWindow",
     "sequentialDistinct", "distinct", "union", "orderBy", "startAt",
     "generateSeries", "withSeries", "zip"}

InitArgs ==
    /\ \E rows \in SeqsUpTo(ArgsRows, MaxLen) : df = initFromArray(rows)
    /\ inst = df
    /\ arg = Undefined
    /\ out = NoOut
    /\ ord = NoOrd
    /\ op = "new"
    /\ steps = 0
    /\ calls = 0

\* An operator is called with an argument.
ArgsCall ==
    /\ \E name \in ArgsOperators, a \in ArgsValues :
        /\ op' = name
        /\ arg' = a
        /\ out' = operatorCall(name, df, a)
    /\ UNCHANGED <<df, inst, ord, steps, calls>>

\* What the call returned is traversed.
ArgsTraverse ==
    /\ out # NoOut
    /\ out.at = "call"
    /\ out.returned
    /\ out' = traversal(op, df, arg)
    /\ UNCHANGED <<df, inst, arg, ord, op, steps, calls>>

NextArgs ==
    \/ ArgsCall
    \/ ArgsTraverse

SpecArgs == InitArgs /\ [][NextArgs]_vars

\* Whether a is of the wrong type for the argument of the operator: not a
\* function where a function is required, not a number where a number is
\* required, neither a function nor omitted where a function is optional.
WrongType(name, a) ==
    CASE name \in {"where", "select", "variableWindow", "orderBy",
                   "generateSeries", "withSeries", "zip"} -> ~isFunction(a)
      [] name \in {"skip", "take", "window"} -> ~isNumber(a)
      [] name \in {"sequentialDistinct", "union", "distinct"} ->
            a # Undefined /\ ~isFunction(a)
      [] OTHER -> FALSE

\* C19: an operator that is called with an argument of the wrong type throws
\* in that call, returns no derived dataframe and leaves the receiver as it
\* was; for every operator, distinct, union, startAt and the window
\* operators included.
C19_WrongArgumentThrowsAtCall ==
    (out # NoOut /\ WrongType(op, arg)) =>
        /\ out.at = "call"
        /\ out.threw = "AssertionError"
        /\ ~out.returned
        /\ df = inst

\* C20: the operator call never invokes the function it is given; the
\* function is first invoked, and what it throws is thrown, in the traversal
\* of the derived dataframe, and reaches the caller as it was thrown.
C20_FunctionInvokedOnlyOnTraversal ==
    (out # NoOut /\ isFunction(arg) /\ ~WrongType(op, arg)) =>
        /\ out.at = "call" => out.invoked = 0 /\ out.threw = "none"
        /\ (out.at = "traversal" /\ arg = Fn(TRUE)
                /\ invokedByTraversal(op, df, arg)) => out.threw = "UserError"

\* C30: first() and last() throw only for a dataframe without rows: with at
\* least one row, whatever the values are, first() returns the value at the
\* first position and last() the value at the last position.
C30_FirstLastReturnOnNonEmpty ==
    ~none(df) =>
        /\ "first" \in out.called => out.first = [value |-> df.values[1]]
        /\ "last" \in out.called => out.last = [value |-> df.values[Len(df.values)]]

-----------------------------------------------------------------------------
(* SpecNames: a dataframe is constructed with a list of column names.  arg *)
(* is the list given, df the dataframe constructed from it.                *)

NamesInputs == {"A", "a", "B", "A.1"}

InitNames ==
    /\ arg \in SeqsUpTo(NamesInputs, MaxNamesLen)
    /\ df = initEmpty
    /\ out = NoOut
    /\ ord = NoOrd
    /\ inst = NoInst
    /\ op = "none"
    /\ steps = 0
    /\ calls = 0

\* new DataFrame({ columnNames: arg, values: [] })
NamesConstruct ==
    /\ op = "none"
    /\ df' = initFromConfig([columnNames |-> arg, values |-> <<>>])
    /\ op' = "new"
    /\ UNCHANGED <<arg, out, ord, inst, steps, calls>>

\* getColumnNames() is read.
NamesRead ==
    /\ op = "new"
    /\ out' = getColumnNames(df)
    /\ op' = "getColumnNames"
    /\ UNCHANGED <<df, arg, ord, inst, steps, calls>>

NextNames ==
    \/ NamesConstruct
    \/ NamesRead

SpecNames == InitNames /\ [][NextNames]_vars

\* The suffix .n
Suffix(n) == "." \o ToString(n)

\* A name of the result in lower case: an input name, or an input name with
\* a suffix.
LowerOfName(name) ==
    IF \E i \in NamesInputs, n \in 1..MaxNamesLen : name = i \o Suffix(n)
    THEN LET in == CHOOSE in \in NamesInputs \X (1..MaxNamesLen) :
                      name = in[1] \o Suffix(in[2])
         IN  ToLower(in[1]) \o Suffix(in[2])
    ELSE ToLower(name)

\* C24: the column names of a dataframe constructed with a columnNames list
\* hold no two names that are equal ignoring case; of the names that collide
\* ignoring case the first keeps its name and the later ones are suffixed
\* .1, .2, ... in order; names that do not collide are unchanged.
C24_ColumnNamesMadeUnique ==
    op = "getColumnNames" =>
        /\ Len(out) = Len(arg)
        /\ \A j, k \in DOMAIN out :
              j # k => LowerOfName(out[j]) # LowerOfName(out[k])
        /\ \A k \in DOMAIN arg :
              LET earlier == Cardinality({j \in 1..(k - 1) :
                                ToLower(arg[j]) = ToLower(arg[k])})
              IN  out[k] = IF earlier = 0 THEN arg[k]
                           ELSE arg[k] \o Suffix(earlier)

-----------------------------------------------------------------------------
(* Index ranges of a dataframe whose index is sorted ascending: startAt,   *)
(* endAt, before, after and between, each applied to the same dataframe    *)
(* with the same index values.                                             *)

\* Rows with the column A, or with the columns A and a.
RangeRows == {[A |-> Num(1)], [A |-> Num(1), a |-> Num(2)]}
RangeIndexValues == {Num(1), Num(2)}
RangeArgs == {Num(0), Num(1), Num(2), Num(3)}
RangeNone == [none |-> TRUE]
RangeOperators == {"startAt", "endAt", "before", "after", "between"}

InitRange ==
    /\ \E rows \in SeqsUpTo(RangeRows, MaxRangeLen) :
       \E index \in [1..Len(rows) -> RangeIndexValues] :
          /\ \A j, k \in DOMAIN index : j < k => index[j].n <= index[k].n
          /\ df = initFromConfig([values |-> rows, index |-> index])
    /\ arg \in RangeArgs \X RangeArgs
    /\ out = [called |-> {}, startAt |-> RangeNone, endAt |-> RangeNone,
              before |-> RangeNone, after |-> RangeNone, between |-> RangeNone]
    /\ ord = NoOrd
    /\ inst = NoInst
    /\ op = "new"
    /\ steps = 0
    /\ calls = 0

\* One range operator applied to the dataframe, which is left as it is.
RangeCall(name, returned) ==
    /\ name \notin out.called
    /\ out' = [out EXCEPT !.called = @ \cup {name}, ![name] = returned]
    /\ op' = name
    /\ UNCHANGED <<df, arg, ord, inst, steps, calls>>

RangeStartAt == RangeCall("startAt", startAt(df, arg[1]))

RangeEndAt == RangeCall("endAt", endAt(df, arg[1]))

RangeBefore == RangeCall("before", before(df, arg[1]))

RangeAfter == RangeCall("after", after(df, arg[1]))

RangeBetween == RangeCall("between", between(df, arg[1], arg[2]))

NextRange ==
    \/ RangeStartAt
    \/ RangeEndAt
    \/ RangeBefore
    \/ RangeAfter
    \/ RangeBetween

SpecRange == InitRange /\ [][NextRange]_vars

\* The positions of df whose index value is in the range of the operator.
InRange(name, k) ==
    LET i == df.index[k].n
    IN  CASE name = "startAt" -> i >= arg[1].n
          [] name = "endAt" -> i <= arg[1].n
          [] name = "before" -> i < arg[1].n
          [] name = "after" -> i > arg[1].n
          [] name = "between" -> arg[1].n <= i /\ i <= arg[2].n

\* The content a range operator is to return: the entries of df at the
\* positions in range, in their order; the column names of df.
Kept(name) ==
    LET P == {k \in DOMAIN df.index : InRange(name, k)}
    IN  [index |-> AtPositions(df.index, P),
         values |-> AtPositions(df.values, P),
         pairs |-> AtPositions(df.pairs, P),
         columnNames |-> df.columnNames]

\* C25: on a dataframe whose index is sorted ascending, startAt(v) retains
\* exactly the pairs whose index is >= v, after(v) those > v, endAt(v) those
\* <= v, before(v) those < v and between(a, b) those with a <= index <= b, in
\* their order and with their index values, values and column names;
\* before(v) followed by startAt(v), and endAt(v) followed by after(v), are
\* the whole dataframe.
C25_IndexRanges ==
    /\ \A name \in out.called :
          /\ out[name].index = Kept(name).index
          /\ out[name].values = Kept(name).values
          /\ out[name].pairs = Kept(name).pairs
          /\ toPairs(out[name]) = toPairs(Kept(name))
          /\ getColumnNames(out[name]) = getColumnNames(df)
    /\ {"before", "startAt"} \subseteq out.called =>
          /\ out.before.pairs \o out.startAt.pairs = df.pairs
          /\ toPairs(out.before) \o toPairs(out.startAt) = toPairs(df)
    /\ {"endAt", "after"} \subseteq out.called =>
          /\ out.endAt.pairs \o out.after.pairs = df.pairs
          /\ toPairs(out.endAt) \o toPairs(out.after) = toPairs(df)

-----------------------------------------------------------------------------
(* Windows of a dataframe.  The window iterables are in ./iterables; each  *)
(* window is `new DataFrame({ columnNames, pairs })` over a run of pairs.  *)

InvalidArgument == "InvalidArgument"

\* The windows an iterable yields, or the failure of its traversal.
Yielded(windows) == [threw |-> "none", windows |-> windows]
Failed(error) == [threw |-> error, windows |-> <<>>]

\* Chunks of `period` pairs, the last one possibly shorter; no check of period.
WindowChunks(columnNames, pairs, period) ==
    LET n == Len(pairs)
        chunks == IF period <= 0 THEN 0 ELSE (n + period - 1) \div period
    IN  Yielded([w \in 1..chunks |->
            initFromConfig([columnNames |-> columnNames,
                            pairs |-> SubSeq(pairs, (w - 1) * period + 1,
                                             Min(w * period, n))])])

\* DataFrameWindowIterable (./iterables)
DataFrameWindowIterable(columnNames, pairs, period) ==
    IF period <= 0 THEN Failed(InvalidArgument)
    ELSE WindowChunks(columnNames, pairs, period)

\* DataFrameRollingWindowIterable (./iterables): a window at every offset that
\* has `period` pairs after it.
DataFrameRollingWindowIterable(columnNames, pairs, period) ==
    IF period <= 0 THEN Failed(InvalidArgument)
    ELSE Yielded([k \in 1..Max(0, Len(pairs) - period + 1) |->
            initFromConfig([columnNames |-> columnNames,
                            pairs |-> SubSeq(pairs, k, k + period - 1)])])

\* DataFrame.window, traversed: the values of the series it returns.
window(c, period) == DataFrameWindowIterable(c.columnNames, c.pairs, period.n)

\* DataFrame.rollingWindow, traversed.
rollingWindow(c, period) ==
    DataFrameRollingWindowIterable(c.columnNames, c.pairs, period.n)

-----------------------------------------------------------------------------
(* SpecWindow: df is the receiver, arg the period and the comparer of the  *)
(* calls, out what the traversal of each returned series yields.           *)

\* Rows with the column A, or with the columns A and a.
WindowRows == {[A |-> Num(1)], [A |-> Num(2)], [A |-> Num(1), a |-> Num(2)]}
WindowPeriods == {Num(0 - 1), Num(0), Num(1), Num(2), Num(3)}
WindowComparers == {"always", "never", "sameA"}
WindowNone == [none |-> TRUE]

\* The comparer (a, b) => ... as the function of the rows it is applied to.
Comparer(name, c) ==
    [ab \in Range(c.values) \X Range(c.values) |->
        CASE name = "always" -> TRUE
          [] name = "never" -> FALSE
          [] name = "sameA" -> ab[1].A = ab[2].A]

InitWindow ==
    /\ \E rows \in SeqsUpTo(WindowRows, MaxWindowLen) :
          df = initFromConfig([values |-> rows,
                               index |-> [k \in 1..Len(rows) |-> Num(10 + k)]])
    /\ arg \in [period : WindowPeriods, comparer : WindowComparers]
    /\ out = [called |-> {}, window |-> WindowNone, rollingWindow |-> WindowNone,
              variableWindow |-> WindowNone]
    /\ ord = NoOrd
    /\ inst = NoInst
    /\ op = "new"
    /\ steps = 0
    /\ calls = 0

\* One window operator called on the dataframe and the series it returns
\* traversed; the dataframe is left as it is.
WindowCall(name, returned) ==
    /\ name \notin out.called
    /\ out' = [out EXCEPT !.called = @ \cup {name}, ![name] = returned]
    /\ op' = name
    /\ UNCHANGED <<df, arg, ord, inst, steps, calls>>

WindowWindow == WindowCall("window", window(df, arg.period))

WindowRollingWindow == WindowCall("rollingWindow", rollingWindow(df, arg.period))

WindowVariableWindow ==
    WindowCall("variableWindow",
               Yielded(variableWindow(df, Comparer(arg.comparer, df)).values))

NextWindow ==
    \/ WindowWindow
    \/ WindowRollingWindow
    \/ WindowVariableWindow

SpecWindow == InitWindow /\ [][NextWindow]_vars

RECURSIVE ConcatPairs(_)
ConcatPairs(windows) ==
    IF Len(windows) = 0 THEN <<>>
    ELSE windows[1].pairs \o ConcatPairs(Tail(windows))

\* The position in df of the first pair of window w.
StartOf(windows, w) == Len(ConcatPairs(SubSeq(windows, 1, w - 1))) + 1

\* The windows are consecutive runs of the pairs of df, none of them empty.
Partitions(windows) ==
    /\ ConcatPairs(windows) = df.pairs
    /\ \A w \in DOMAIN windows : Len(windows[w].pairs) > 0

\* C22: for a dataframe of n rows and a period p >= 1, window(p) yields
\* ceil(n/p) consecutive chunks of p pairs (the last possibly shorter) whose
\* concatenation is the pairs of the dataframe; rollingWindow(p) yields
\* max(0, n - p + 1) windows, the k-th holding the pairs k..k+p-1;
\* variableWindow(cmp) starts a new window exactly where cmp(prev, curr) is
\* false for adjacent rows; every window has the column names of the
\* dataframe.
C22_Windows ==
    LET n == Len(df.pairs)
        p == arg.period.n
        cmp == Comparer(arg.comparer, df)
    IN  /\ ("window" \in out.called /\ p >= 1) =>
              LET ws == out.window.windows
              IN  /\ out.window.threw = "none"
                  /\ Len(ws) = (n + p - 1) \div p
                  /\ Partitions(ws)
                  /\ \A w \in DOMAIN ws : w < Len(ws) => Len(ws[w].pairs) = p
                  /\ \A w \in DOMAIN ws : Len(ws[w].pairs) <= p
                  /\ \A w \in DOMAIN ws : getColumnNames(ws[w]) = getColumnNames(df)
        /\ ("rollingWindow" \in out.called /\ p >= 1) =>
              LET ws == out.rollingWindow.windows
              IN  /\ out.rollingWindow.threw = "none"
                  /\ Len(ws) = Max(0, n - p + 1)
                  /\ \A k \in DOMAIN ws : ws[k].pairs = SubSeq(df.pairs, k, k + p - 1)
                  /\ \A k \in DOMAIN ws : getColumnNames(ws[k]) = getColumnNames(df)
        /\ "variableWindow" \in out.called =>
              LET ws == out.variableWindow.windows
              IN  /\ Partitions(ws)
                  /\ {StartOf(ws, w) : w \in DOMAIN ws} =
                        {k \in 1..n : k = 1 \/ ~cmp[<<df.values[k - 1], df.values[k]>>]}
                  /\ (arg.comparer = "always" /\ n > 0) => Len(ws) = 1
                  /\ arg.comparer = "never" => Len(ws) = n
                  /\ \A w \in DOMAIN ws : getColumnNames(ws[w]) = getColumnNames(df)

-----------------------------------------------------------------------------
(* transformSeries.                                                        *)

\* The column selectors value => ..., by name.
TransformValue(f, v) ==
    CASE f = "inc" -> Num(v.n + 1)
      [] f = "zero" -> Num(0)

\* Series.select (./series): the series of the selected values, with the
\* index of the series.
seriesSelect(series, f) ==
    SeriesOf(series.index,
             SelectIterable(series.values,
                 [v \in Range(series.values) |-> TransformValue(f, v)]))

\* DataFrame.transformSeries; columnSelectors is the list of the fields of the
\* spec object, in the order of Object.keys.
RECURSIVE transformSeries(_, _)
transformSeries(working, columnSelectors) ==
    IF Len(columnSelectors) = 0 THEN working
    ELSE LET columnName == Head(columnSelectors).column
             selector == Head(columnSelectors).selector
         IN  transformSeries(
                 IF hasSeries(working, columnName)
                 THEN withSeries(working, columnName,
                                 seriesSelect(getSeries(working, columnName), selector))
                 ELSE working,
                 Tail(columnSelectors))

-----------------------------------------------------------------------------
(* SpecTransform: df is the receiver, arg the transform spec, out the      *)
(* dataframe transformSeries returned.                                     *)

TransformRows == [A : {Num(1), Num(2)}, B : {Num(5)}]
TransformIndexValues == {Num(1), Num(2)}
TransformColumns == {"A", "B", "C"}
TransformSelectors == {"inc", "zero"}

InitTransform ==
    /\ \E rows \in SeqsUpTo(TransformRows, MaxColumnsLen) :
       \E index \in [1..Len(rows) -> TransformIndexValues] :
          df = initFromConfig([values |-> rows, index |-> index])
    /\ \E columns \in SeqsUpTo(TransformColumns, 2) :
       \E selector \in TransformSelectors :
          /\ \A j, k \in DOMAIN columns : j # k => columns[j] # columns[k]
          /\ arg = [k \in DOMAIN columns |->
                       [column |-> columns[k], selector |-> selector]]
    /\ out = NoOut
    /\ ord = NoOrd
    /\ inst = NoInst
    /\ op = "new"
    /\ steps = 0
    /\ calls = 0

TransformSeries ==
    /\ op = "new"
    /\ out' = transformSeries(df, arg)
    /\ op' = "transformSeries"
    /\ UNCHANGED <<df, arg, ord, inst, steps, calls>>

\* The derived dataframe is baked.
TransformBake ==
    /\ op = "transformSeries"
    /\ out' = bake(out)
    /\ op' = "bake"
    /\ UNCHANGED <<df, arg, ord, inst, steps, calls>>

NextTransform ==
    \/ TransformSeries
    \/ TransformBake

SpecTransform == InitTransform /\ [][NextTransform]_vars

\* The row the claim requires at a position: the selector applied to every
\* column of df the spec names, the other columns as they are.
Transformed(row) ==
    [c \in DOMAIN row |->
        IF \E k \in DOMAIN arg : arg[k].column = c
        THEN TransformValue(arg[CHOOSE k \in DOMAIN arg : arg[k].column = c].selector,
                            row[c])
        ELSE row[c]]

\* C26: transformSeries({C: f}) keeps the index, the number of rows and their
\* order; at every row position column C holds f of the value the row had in
\* column C and the other columns are unchanged; spec entries naming a column
\* the dataframe does not have are ignored; for every index, repeated index
\* values included.
C26_TransformSeriesByPosition ==
    op = "transformSeries" =>
        /\ out.index = df.index
        /\ Len(out.values) = Len(df.values)
        /\ \A k \in DOMAIN df.values : out.values[k] = Transformed(df.values[k])
        /\ \A k \in DOMAIN df.pairs :
              out.pairs[k] = <<df.pairs[k][1], Transformed(df.pairs[k][2])>>

-----------------------------------------------------------------------------
(* renameSeries with a rename spec of several columns.  newColumnNames is  *)
(* the list of the fields of the spec object, in the order of Object.keys. *)

\* remapValue for the whole spec: for every field of the spec in turn,
\* clone[new] = clone[old]; delete clone[old].
RECURSIVE remapValues(_, _)
remapValues(clone, newColumnNames) ==
    IF Len(newColumnNames) = 0 THEN clone
    ELSE LET old == Head(newColumnNames).old
             new == Head(newColumnNames).new
         IN  remapValues(Delete(Assign(clone, new, Get(clone, old)), old),
                         Tail(newColumnNames))

\* DataFrame.renameSeries
renameSeries(c, newColumnNames) ==
    LET existingColumnsToRename == [k \in DOMAIN newColumnNames |-> newColumnNames[k].old]
        newName(existingColumnName) ==
            newColumnNames[CHOOSE k \in DOMAIN newColumnNames :
                              newColumnNames[k].old = existingColumnName].new
        renamedColumns ==
            [k \in DOMAIN c.columnNames |->
                IF c.columnNames[k] \notin Range(existingColumnsToRename)
                THEN c.columnNames[k]
                ELSE newName(c.columnNames[k])]
    IN  initFromConfig([
            columnNames |-> renamedColumns,
            index |-> c.index,
            values |-> SelectIterable(c.values,
                [value \in Range(c.values) |-> remapValues(value, newColumnNames)]),
            pairs |-> SelectIterable(c.pairs,
                [pair \in Range(c.pairs) |->
                    <<pair[1], remapValues(pair[2], newColumnNames)>>])])

-----------------------------------------------------------------------------
(* SpecRename: df is the receiver, arg the rename spec, out the dataframe  *)
(* renameSeries returned.                                                  *)

RenameRows == [A : {Num(1), Num(2)}, B : {Num(3), Num(4)}]
RenameOld == {"A", "B"}
RenameNew == {"A", "B", "X"}

InitRename ==
    /\ \E rows \in SeqsUpTo(RenameRows, MaxColumnsLen) :
          df = initFromConfig([columnNames |-> <<"A", "B">>, values |-> rows,
                               index |-> [k \in 1..Len(rows) |-> Num(10 + k)]])
    /\ \E old \in SeqsUpTo(RenameOld, 2) :
       \E new \in [DOMAIN old -> RenameNew] :
          /\ \A j, k \in DOMAIN old : j # k => old[j] # old[k]
          /\ arg = [k \in DOMAIN old |-> [old |-> old[k], new |-> new[k]]]
    /\ out = NoOut
    /\ ord = NoOrd
    /\ inst = NoInst
    /\ op = "new"
    /\ steps = 0
    /\ calls = 0

RenameSeries ==
    /\ op = "new"
    /\ out' = renameSeries(df, arg)
    /\ op' = "renameSeries"
    /\ UNCHANGED <<df, arg, ord, inst, steps, calls>>

\* The derived dataframe is baked.
RenameBake ==
    /\ op = "renameSeries"
    /\ out' = bake(out)
    /\ op' = "bake"
    /\ UNCHANGED <<df, arg, ord, inst, steps, calls>>

NextRename ==
    \/ RenameSeries
    \/ RenameBake

SpecRename == InitRename /\ [][NextRename]_vars

\* The name the spec gives to a column of df.
NewNameOf(c) ==
    IF \E k \in DOMAIN arg : arg[k].old = c
    THEN arg[CHOOSE k \in DOMAIN arg : arg[k].old = c].new
    ELSE c

\* The column of df that gets the name c.
OldNameOf(c) == CHOOSE o \in Range(df.columnNames) : NewNameOf(o) = c

\* The spec gives no two columns of df the same name.
RenamesApart ==
    \A b, c \in Range(df.columnNames) : b # c => NewNameOf(b) # NewNameOf(c)

\* The row the claim requires: under every new name the value the row had
\* under the old name.
Renamed(row) ==
    [c \in {NewNameOf(o) : o \in Range(df.columnNames)} |-> row[OldNameOf(c)]]

\* C27: renameSeries(spec) keeps the index and the rows; the column order is
\* kept with the names substituted; every row's value under a new name is the
\* value it had under the old name and the other columns are unchanged; for
\* every rename spec that gives the columns names that differ from each
\* other, a swap of two columns included.
C27_RenameSeriesSubstitutes ==
    (op = "renameSeries" /\ RenamesApart) =>
        /\ out.index = df.index
        /\ getColumnNames(out) =
              [k \in DOMAIN df.columnNames |-> NewNameOf(df.columnNames[k])]
        /\ Len(out.values) = Len(df.values)
        /\ \A k \in DOMAIN df.values : out.values[k] = Renamed(df.values[k])
        /\ \A k \in DOMAIN df.pairs :
              out.pairs[k] = <<df.pairs[k][1], Renamed(df.pairs[k][2])>>

-----------------------------------------------------------------------------
(* pivot on a list of columns.  The intermediate `working` is a Series     *)
(* (./series) of the objects { c1, ..., src }: here the list of the pairs  *)
(* <<index, [fields, src]>>.                                               *)

\* Series.sum (./series) of the values of a column.
RECURSIVE sum(_)
sum(values) == IF Len(values) = 0 THEN 0 ELSE Head(values).n + sum(Tail(values))

\* The sub-groups of one element of working: src.groupBy(row =>
\* row[nextColumnName]).select(subGroup => ({...parentGroup,
\* [nextColumnName]: subGroup.first()[nextColumnName], src: subGroup})).
subGroups(parentGroup, nextColumnName) ==
    LET groups == groupBy(parentGroup[2].src, nextColumnName)
    IN  [g \in DOMAIN groups |->
            <<parentGroup[1],
              [fields |-> Assign(parentGroup[2].fields, nextColumnName,
                                 Get(first(groups[g]), nextColumnName)),
               src |-> groups[g]]>>]

\* working.selectMany(parentGroup => ...): the sub-groups of every element,
\* in order.
RECURSIVE selectManyGroups(_, _)
selectManyGroups(working, nextColumnName) ==
    IF Len(working) = 0 THEN <<>>
    ELSE subGroups(Head(working), nextColumnName)
            \o selectManyGroups(Tail(working), nextColumnName)

\* The for loop over columnNames[1..]: one selectMany for each.
RECURSIVE groupByColumns(_, _)
groupByColumns(working, columnNames) ==
    IF Len(columnNames) = 0 THEN working
    ELSE groupByColumns(selectManyGroups(working, Head(columnNames)),
                        Tail(columnNames))

\* orderBy(firstColumnName) and then thenBy(nextColumnName) for each further
\* column.
RECURSIVE thenByColumns(_, _)
thenByColumns(ordered, columnNames) ==
    IF Len(columnNames) = 0 THEN ordered
    ELSE thenByColumns(thenBy(ordered, Head(columnNames), Ascending),
                       Tail(columnNames))

\* DataFrame.pivot(columnNames, valueColumnName, values => values.sum())
pivotColumns(c, columnNames, valueColumnName) ==
    LET firstColumnName == Head(columnNames)
        groups == groupBy(c, firstColumnName)
        firstGroups ==
            [g \in DOMAIN groups |->
                <<Num(g - 1),
                  [fields |-> [o \in {firstColumnName} |->
                                  Get(first(groups[g]), firstColumnName)],
                   src |-> groups[g]]>>]
        working == groupByColumns(firstGroups, Tail(columnNames))
        pivotted ==
            initFromConfig([pairs |-> [k \in DOMAIN working |->
                <<working[k][1],
                  Assign(working[k][2].fields, valueColumnName,
                         Num(sum(getSeries(working[k][2].src, valueColumnName).values)))>>]])
    IN  thenByColumns(orderBy(pivotted, firstColumnName, Ascending),
                      Tail(columnNames)).content

-----------------------------------------------------------------------------
(* SpecPivot: df is the receiver, arg the list of pivot columns, out the   *)
(* dataframe pivot(arg, "V", values => values.sum()) returned.             *)

PivotRows == [A : {Num(1), Num(2)}, B : {Num(1), Num(2)}, C : {Num(1), Num(2)},
              V : {Num(1), Num(2)}]
PivotColumnLists == {<<"A">>, <<"B", "A">>, <<"A", "B">>, <<"A", "B", "C">>}

InitPivot ==
    /\ \E rows \in SeqsUpTo(PivotRows, MaxPivotLen) : df = initFromArray(rows)
    /\ arg \in PivotColumnLists
    /\ out = NoOut
    /\ ord = NoOrd
    /\ inst = NoInst
    /\ op = "new"
    /\ steps = 0
    /\ calls = 0

Pivot ==
    /\ op = "new"
    /\ out' = pivotColumns(df, arg, "V")
    /\ op' = "pivot"
    /\ UNCHANGED <<df, arg, ord, inst, steps, calls>>

\* The pivotted dataframe is baked.
PivotBake ==
    /\ op = "pivot"
    /\ out' = bake(out)
    /\ op' = "bake"
    /\ UNCHANGED <<df, arg, ord, inst, steps, calls>>

NextPivot ==
    \/ Pivot
    \/ PivotBake

SpecPivot == InitPivot /\ [][NextPivot]_vars

\* The values a row has in the pivot columns.
Combination(row) == [k \in DOMAIN arg |-> row[arg[k]]]

\* Combination a is before combination b: at the first column where they
\* differ, a has the smaller value.
LexLess(a, b) ==
    \E l \in DOMAIN arg :
        /\ a[l].n < b[l].n
        /\ \A m \in 1..(l - 1) : a[m] = b[m]

\* C23: pivot([c1, ..., cm], V, sum) has one row for every combination of
\* values of c1..cm that a row of the dataframe has; the row holds the
\* combination and, under V, the sum over exactly the rows with that
\* combination; the rows are sorted ascending by c1, then c2, ..., then cm.
C23_PivotGroupsAndSorts ==
    op = "pivot" =>
        /\ {Combination(out.values[k]) : k \in DOMAIN out.values}
              = {Combination(df.values[k]) : k \in DOMAIN df.values}
        /\ \A k \in DOMAIN out.values :
              /\ DOMAIN out.values[k] = Range(arg) \cup {"V"}
              /\ out.values[k].V =
                    Num(sum(AtPositions(
                        [i \in DOMAIN df.values |-> df.values[i].V],
                        {i \in DOMAIN df.values :
                            Combination(df.values[i]) = Combination(out.values[k])})))
        /\ \A j, k \in DOMAIN out.values :
              j < k => LexLess(Combination(out.values[j]), Combination(out.values[k]))

====
